---- MODULE Spec2Model ----
(***************************************************************************)
(* eeg_positions: the arc point solver (find_point_at_fraction), the       *)
(* contour expansion loop and the electrode table it grows.                *)
(*                                                                         *)
(* Numbers.  The program computes in binary64 floating point.  The model   *)
(* computes in binary fixed point with FracBits fractional bits: a real r  *)
(* is the integer round(r * 2^FracBits).  Coordinates enter and leave the  *)
(* solver as decimals with four places (the program rounds every result    *)
(* with round(decimals=4)); a decimal d/10^4 is written here as the        *)
(* integer d.  As in the program, a decimal that is no binary fraction     *)
(* (0.1, 0.7071) is rounded to the nearest binary number when it enters    *)
(* the arithmetic (FromDec4), every product and quotient is rounded to the *)
(* nearest representable number, and sums and differences are exact.       *)
(* The model therefore agrees with the program wherever the exact result   *)
(* is a four-place decimal, and within one unit of the fourth place        *)
(* elsewhere.                                                              *)
(***************************************************************************)
EXTENDS Integers, Sequences, FiniteSets, TLC

----------------------------------------------------------------------------
(* Fixed-point arithmetic (the float operations of numpy) *)

FracBits == 20
One == 2^FracBits
Half == 2^(FracBits \div 2)

\* the element of a set of one element.  An operator below that uses an
\* argument more than once first names its value, {e(x) : x \in {a}}, as the
\* program computes a value once when it assigns it to a name.
Only(S) == CHOOSE r \in S : TRUE

Abs(a) == IF a < 0 THEN -a ELSE a
Sgn(a) == IF a < 0 THEN -1 ELSE 1
Max2(a, b) == IF a >= b THEN a ELSE b
Max3(a, b, c) == Max2(a, Max2(b, c))

\* |a| * |b| rounded to nearest, by halves so that no partial product
\* leaves 32 bits
MulAbs(a, b) ==
    LET ah == a \div Half
        al == a % Half
        bh == b \div Half
        bl == b % Half
        t == ah * bl + al * bh
    IN  ah * bh + (t \div Half) + (((t % Half) * Half + al * bl + (One \div 2)) \div One)

\* a * b (float multiplication)
Mul(a, b) ==
    Only({Sgn(x) * Sgn(y) * MulAbs(Abs(x), Abs(y)) : x \in {a}, y \in {b}})

\* long division of a remainder r by b, five bits at a time
RECURSIVE DivSteps(_, _, _, _)
DivSteps(q, r, b, steps) ==
    Only({IF steps = 0 THEN q0 + (IF 2 * r0 >= b0 THEN 1 ELSE 0)
          ELSE DivSteps(q0 * 32 + ((r0 * 32) \div b0), (r0 * 32) % b0, b0, steps - 1) :
          q0 \in {q}, r0 \in {r}, b0 \in {b}})

\* a / b (float division), b # 0
Div(a, b) ==
    Only({Sgn(x) * Sgn(y)
          * DivSteps(Abs(x) \div Abs(y), Abs(x) % Abs(y), Abs(y), FracBits \div 5) :
          x \in {a}, y \in {b}})

\* a / n for a small whole number n
DivInt(a, n) == Only({Sgn(x) * ((Abs(x) + (n \div 2)) \div n) : x \in {a}})

\* floor of the square root of a whole number (Newton)
RECURSIVE IntSqrtFrom(_, _)
IntSqrtFrom(v, x) ==
    Only({IF (x0 + (v0 \div x0)) \div 2 >= x0 THEN x0
          ELSE IntSqrtFrom(v0, (x0 + (v0 \div x0)) \div 2) :
          v0 \in {v}, x0 \in {x}})

IntSqrt(v) == IF v < 2 THEN v ELSE IntSqrtFrom(v, v)

RECURSIVE Newton(_, _, _)
Newton(v, x, steps) ==
    Only({IF steps = 0 THEN x0 ELSE Newton(v0, (x0 + Div(v0, x0)) \div 2, steps - 1) :
          v0 \in {v}, x0 \in {x}})

\* np.sqrt
Sqrt(v) ==
    Only({IF x <= 0 THEN 0 ELSE Newton(x, Max2(Half, Half * IntSqrt(x)), 3) : x \in {v}})

\* the power of two that brings m into [1/2, 1): a float keeps its relative
\* precision however small it is, so squares of tiny numbers do not vanish
RECURSIVE ScaleUp(_, _)
ScaleUp(m, k) ==
    Only({IF m0 * k0 >= One \div 2 THEN k0 ELSE ScaleUp(m0, 2 * k0) :
          m0 \in {m}, k0 \in {k}})

\* ns / k, at least the smallest positive number
ScaledDown(ns, k) == Only({Max2(1, (ns0 + (k \div 2)) \div k) : ns0 \in {ns}})

\* the square root of the sum of squares of w, computed at the scale k
ScaledNorm(w, k) ==
    Only({ScaledDown(Sqrt(Mul(w[1] * k0, w[1] * k0) + Mul(w[2] * k0, w[2] * k0)
                          + Mul(w[3] * k0, w[3] * k0)), k0) :
          k0 \in {k}})

\* np.sqrt(x ** 2 + y ** 2 + z ** 2)
Norm3(x, y, z) ==
    Only({IF m = 0 THEN 0 ELSE ScaledNorm(w, ScaleUp(m, 1)) :
          w \in {<<x, y, z>>}, m \in {Max3(Abs(x), Abs(y), Abs(z))}})

\* pi and its multiples, rounded to FracBits
Pi == 3294199
TwoPi == 6588397
HalfPi == 1647099
QuarterPi == 823550
\* tan(pi / 8)
TanPi8 == 434334

\* z - z^3/3 + z^5/5 - ... for |z| <= tan(pi/8)
RECURSIVE AtanSeries(_, _, _, _)
AtanSeries(term, z2, k, terms) ==
    Only({IF k0 = terms THEN 0
          ELSE (IF k0 % 2 = 0 THEN 1 ELSE -1) * DivInt(t0, 2 * k0 + 1)
               + AtanSeries(Mul(t0, z0), z0, k0 + 1, terms) :
          t0 \in {term}, z0 \in {z2}, k0 \in {k}})

\* z - z^3/3 + ..., ten terms
AtanOfSmall(z) == Only({AtanSeries(z0, Mul(z0, z0), 0, 10) : z0 \in {z}})

\* arctan(t) for 0 <= t <= 1
Atan01(t) ==
    Only({IF x > TanPi8 THEN QuarterPi + AtanOfSmall(Div(x - One, x + One))
          ELSE AtanOfSmall(x) :
          x \in {t}})

\* arctan(|y| / |x|), in [0, pi/2]
AtanAbs(y, x) ==
    Only({IF b <= a THEN Atan01(Div(b, a)) ELSE HalfPi - Atan01(Div(a, b)) :
          a \in {Abs(x)}, b \in {Abs(y)}})

\* the angle of the quadrant of (x, y) whose angle to the x axis is base
InQuadrant(y, x, base) ==
    Only({IF y >= 0 THEN ang ELSE -ang : ang \in {IF x >= 0 THEN base ELSE Pi - base}})

\* np.arctan(y / x), in [-pi/2, pi/2]: the quadrant of (x, y) is lost
ArctanOfRatio(y, x) ==
    Only({IF y0 = 0 /\ x0 = 0 THEN 0
          ELSE IF (x0 >= 0) = (y0 >= 0) THEN AtanAbs(y0, x0) ELSE -AtanAbs(y0, x0) :
          y0 \in {y}, x0 \in {x}})

\* np.arctan2(y, x), in (-pi, pi]
Arctan2(y, x) ==
    Only({IF y0 = 0 /\ x0 = 0 THEN 0 ELSE InQuadrant(y0, x0, AtanAbs(y0, x0)) :
          y0 \in {y}, x0 \in {x}})

\* r - r^3/3! + r^5/5! - ...
RECURSIVE SinSeries(_, _, _, _)
SinSeries(term, r2, k, terms) ==
    Only({IF k0 = terms THEN 0
          ELSE (IF k0 % 2 = 0 THEN 1 ELSE -1) * t0
               + SinSeries(DivInt(Mul(t0, r0), (2 * k0 + 2) * (2 * k0 + 3)),
                           r0, k0 + 1, terms) :
          t0 \in {term}, r0 \in {r2}, k0 \in {k}})

\* 1 - r^2/2! + r^4/4! - ...
RECURSIVE CosSeries(_, _, _, _)
CosSeries(term, r2, k, terms) ==
    Only({IF k0 = terms THEN 0
          ELSE (IF k0 % 2 = 0 THEN 1 ELSE -1) * t0
               + CosSeries(DivInt(Mul(t0, r0), (2 * k0 + 1) * (2 * k0 + 2)),
                           r0, k0 + 1, terms) :
          t0 \in {term}, r0 \in {r2}, k0 \in {k}})

\* <<cos, sin>> of the angle r of the quarter turn q, r in [0, pi/2)
CosSinOfQuarter(q, c, s) ==
    Only({CASE q = 0 -> <<c0, s0>>
            [] q = 1 -> <<-s0, c0>>
            [] q = 2 -> <<-c0, -s0>>
            [] q = 3 -> <<s0, -c0>>
            [] OTHER -> <<c0, s0>> :
          c0 \in {c}, s0 \in {s}})

\* <<cos, sin>> of r in [0, pi/2), r2 being r * r
CosSinSeries(q, r, r2) ==
    Only({CosSinOfQuarter(q, CosSeries(One, x, 0, 9), SinSeries(r, x, 0, 9)) : x \in {r2}})

\* <<np.cos(a), np.sin(a)>> for a >= 0: reduce to a quarter turn, then the series
CosSin(a) ==
    Only({CosSinSeries(m \div HalfPi, m % HalfPi, Mul(m % HalfPi, m % HalfPi)) :
          m \in {a % TwoPi}})

\* a four-place decimal (the integer d for d / 10^4) as a float
FromDec4(d) == Sgn(d) * ((Abs(d) * 2^(FracBits - 4) + 312) \div 625)

\* the four-place decimal of sign s, whole part w and q units of the fourth
\* place, the remainder of which is r of unit: ties go to the even decimal
RoundHalfEven(s, w, q, r, unit) ==
    s * (w * 10000 + q
         + (IF r > unit \div 2 \/ (r = unit \div 2 /\ q % 2 = 1) THEN 1 ELSE 0))

\* round(decimals=4): the nearest four-place decimal, ties to even
Round4(x) ==
    Only({RoundHalfEven(Sgn(x0), Abs(x0) \div One,
                        ((Abs(x0) % One) * 625) \div 2^(FracBits - 4),
                        ((Abs(x0) % One) * 625) % 2^(FracBits - 4),
                        2^(FracBits - 4)) :
          x0 \in {x}})

----------------------------------------------------------------------------
(* utils.py: find_point_at_fraction *)

\* the function raised ValueError and returned no point
NoPoint == <<>>

\* a triple of four-place decimals as floats
Floats(p) == <<FromDec4(p[1]), FromDec4(p[2]), FromDec4(p[3])>>

\* vectors of floats
Sub3(a, b) == <<a[1] - b[1], a[2] - b[2], a[3] - b[3]>>
Dot3(a, b) == Mul(a[1], b[1]) + Mul(a[2], b[2]) + Mul(a[3], b[3])
Cross3(a, b) ==
    <<Mul(a[2], b[3]) - Mul(a[3], b[2]),
      Mul(a[3], b[1]) - Mul(a[1], b[3]),
      Mul(a[1], b[2]) - Mul(a[2], b[1])>>
Scaled(d, a) == Only({<<Mul(d0, a[1]), Mul(d0, a[2]), Mul(d0, a[3])>> : d0 \in {d}})

\* lines 66-77: the cross product of p2 - p1 and p3 - p1, not yet normalised
\* (q1, q2, q3 are triples of floats)
PlaneNormal(q1, q2, q3) == Cross3(Sub3(q2, q1), Sub3(q3, q1))

\* line 79: n, the length of the plane normal of the decimal points p1, p2, p3
NormalLength(p1, p2, p3) ==
    Only({Norm3(nv[1], nv[2], nv[3]) : nv \in {PlaneNormal(Floats(p1), Floats(p2), Floats(p3))}})

\* line 81: if n <= 0.0: raise ValueError
Degenerate(n) == n <= 0

\* lines 86-88: the normal scaled to unit length
UnitNormal(nv, n) ==
    Only({<<Div(nv[1], n0), Div(nv[2], n0), Div(nv[3], n0)>> : n0 \in {n}})

\* lines 90-96: the centre of the circle, the point of the plane nearest the origin
Centre(nh, q1) == Scaled(Dot3(nh, q1), nh)

\* lines 112-117: choose the V axis towards p2
TowardsP2(v2, w) == IF v2 < 0 THEN -w ELSE w

\* lines 126-130: theta, made positive by adding 2 pi
PositiveThetaAsIs(thetav, thetau) == Arctan2(thetav, thetau)
PositiveTheta(thetav, thetau) ==
    Only({IF theta < 0 THEN theta + TwoPi ELSE theta : theta \in {Arctan2(thetav, thetau)}})

\* lines 133-135: frac * theta, frac = <<num, den>>
AngleAtClamped(theta, frac) ==
    IF frac[1] > frac[2] THEN theta ELSE DivInt(theta * frac[1], frac[2])
AngleAt(theta, frac) == DivInt(theta * frac[1], frac[2])

\* lines 133-140: the point of the circle (centre c, axes u and v) at the angle
\* whose cosine and sine are cs, rounded
PointAt(c, u, v, cs) ==
    Only({<<Round4(c[1] + Mul(u[1], cs0[1]) + Mul(v[1], cs0[2])),
            Round4(c[2] + Mul(u[2], cs0[1]) + Mul(v[2], cs0[2])),
            Round4(c[3] + Mul(u[3], cs0[1]) + Mul(v[3], cs0[2]))>> :
          cs0 \in {cs}})

\* lines 119-140: theta from p3 in the basis, then the point at frac * theta
OnCircle(q3, c, u, v, frac) ==
    Only({PointAt(c, u, v0, CosSin(AngleAt(PositiveTheta(Dot3(t, v0), Dot3(t, u)), frac))) :
          v0 \in {v}, t \in {Sub3(q3, c)}})

\* lines 105-117: V = n x U, turned towards p2
WithBasis(q, nh, c, u, frac) ==
    Only({Only({OnCircle(q[3], c, u0,
                         <<TowardsP2(v2, v0[1]), TowardsP2(v2, v0[2]), TowardsP2(v2, v0[3])>>,
                         frac) :
                v2 \in {Dot3(Sub3(q[2], c), v0)}}) :
          u0 \in {u}, v0 \in {Cross3(nh, u)}})

\* lines 90-103: the centre c and U = p1 - c
WithCentre(q, nh, c, frac) ==
    Only({WithBasis(q, nh0, c0, Sub3(q[1], c0), frac) : nh0 \in {nh}, c0 \in {c}})

\* lines 79-88: n, the ValueError if it is 0, the unit normal
WithNormal(q, nv, n, frac) ==
    Only({IF Degenerate(n0) THEN NoPoint
          ELSE WithCentre(q, UnitNormal(nv0, n0), Centre(UnitNormal(nv0, n0), q[1]), frac) :
          nv0 \in {nv}, n0 \in {n}})

\* p1, p2, p3: triples of four-place decimals; frac: <<num, den>> for num/den
find_point_at_fraction(p1, p2, p3, frac) ==
    Only({Only({WithNormal(q, nv, Norm3(nv[1], nv[2], nv[3]), frac) :
                nv \in {PlaneNormal(q[1], q[2], q[3])}}) :
          q \in {<<Floats(p1), Floats(p2), Floats(p3)>>}})

----------------------------------------------------------------------------
(* utils.py: get_xyz *)

\* no ValueError was raised
NoError == <<>>

\* line 161: the columns get_xyz asks for, in the order it asks
RequiredColumns == <<"label", "x", "y", "z">>

\* line 162: the required columns that df lacks
MissingColumns(df) == SelectSeq(RequiredColumns, LAMBDA c: c \notin df.columns)

\* line 166: subdf = df[df["label"] == label]
LabelRows(df, label) == SelectSeq(df.rows, LAMBDA r: r.label = label)

\* get_xyz taking the first row of the label when there are several
GetXyzFirstRow(df, label) ==
    LET missing == MissingColumns(df)
        subdf == LabelRows(df, label)
    IN  IF missing # <<>>
        THEN [err |-> <<"df must contain a column", missing[1]>>, xyz |-> NoPoint]
        ELSE IF Len(subdf) = 0
        THEN [err |-> <<"Expected one row of data but got", 0>>, xyz |-> NoPoint]
        ELSE [err |-> NoError, xyz |-> subdf[1].xyz]

\* [err, xyz]: the ValueError raised, or the coordinates of the one row of label
get_xyz(df, label) ==
    LET missing == MissingColumns(df)
        subdf == LabelRows(df, label)
        nrows == Len(subdf)
    IN  IF missing # <<>>
        THEN [err |-> <<"df must contain a column", missing[1]>>, xyz |-> NoPoint]
        ELSE IF nrows = 0 \/ nrows > 1
        THEN [err |-> <<"Expected one row of data but got", nrows>>, xyz |-> NoPoint]
        ELSE [err |-> NoError, xyz |-> subdf[1].xyz]

----------------------------------------------------------------------------
(* calc_positions.py: one pass of the contour loop *)

\* the midpoint counted from one, (n + 1) / 2
MidpointIdxFromOne(n) == IF n = 21 THEN 11 ELSE IF n = 17 THEN 9 ELSE -1

\* lines 68-75: the index of the middle reference point, -1 where the code raises
MidpointIdxAnyLength(n) == (n - 1) \div 2
midpoint_idx(n) == IF n = 21 THEN 10 ELSE IF n = 17 THEN 8 ELSE -1

\* lines 73-75: the ValueError for a contour of n labels
LengthError(n) == <<"contour must be of len 17 or 21 but is", n>>

\* utils.py line 82: the ValueError of find_point_at_fraction
GeometryError == <<"Points are either collinear or share the same coordinates.">>

\* the i-th assignment with the fraction counted in steps of 1 / len
AssignmentByLen(arc, labels, i) ==
    [i |-> i, label |-> labels[i],
     xyz |-> find_point_at_fraction(arc[1], arc[2], arc[3], <<i - 1, Len(labels)>>)]

\* lines 85-88: the i-th assignment of the loop, other_ps[label] = the point
\* at frac = i / (len - 1) of the arc (NoPoint: find_point_at_fraction raised)
Assignment(arc, labels, i) ==
    [i |-> i, label |-> labels[i],
     xyz |-> find_point_at_fraction(arc[1], arc[2], arc[3], <<i - 1, Len(labels) - 1>>)]

\* lines 85-88: the assignments that no later assignment to the same key overwrites
LastAssignments(arc, labels) ==
    SelectSeq([i \in 1..Len(labels) |-> Assignment(arc, labels, i)],
              LAMBDA a: \A j \in (a.i + 1)..Len(labels): labels[j] # a.label)

\* lines 85-88: the indices of the assignments that insert a new key
FirstAssignments(labels) ==
    SelectSeq([i \in 1..Len(labels) |-> i],
              LAMBDA i: \A j \in 1..(i - 1): labels[j] # labels[i])

\* the value the dict holds for the key label
ValueOf(last, label) == last[CHOOSE k \in 1..Len(last): last[k].label = label].xyz

\* lines 84-88: other_ps after the loop: a dict keeps its keys in the order in
\* which they were first set, each with the value it was last given
DictOf(labels, last, firsts) ==
    Only({[k \in 1..Len(f0) |->
              [label |-> labels[f0[k]], xyz |-> ValueOf(l0, labels[f0[k]])]] :
          l0 \in {last}, f0 \in {firsts}})

\* line 97: keep="first", the i-th row stays if no row before it has its label
KeepLast(rows, i) == \A j \in (i + 1)..Len(rows): rows[j].label # rows[i].label
KeepAll(rows, i) == TRUE
KeepFirst(rows, i) == \A j \in 1..(i - 1): rows[j].label # rows[i].label

\* the rows of the indices kept, in their order
RowsAt(rows, kept) == Only({[k \in 1..Len(kept0) |-> rows[kept0[k]]] : kept0 \in {kept}})

\* line 97: df.drop_duplicates(subset="label", keep="first")
drop_duplicates(rows) ==
    Only({RowsAt(r, SelectSeq([i \in 1..Len(r) |-> i], LAMBDA i: KeepFirst(r, i))) :
          r \in {rows}})

\* lines 90-97 with the new rows put before the rows of df
PrependPs(table, ps) ==
    [columns |-> table.columns \cup {"label", "x", "y", "z"},
     rows |-> drop_duplicates(ps \o table.rows)]

\* lines 90-97: append the proposed points to df and drop the duplicate labels
append_ps_to_df(table, ps) ==
    [columns |-> table.columns \cup {"label", "x", "y", "z"},
     rows |-> drop_duplicates(table.rows \o ps)]

\* the pass ended with the ValueError e and the table as it was
Raised(table, e) == [df |-> table, other_ps |-> <<>>, err |-> e]

\* lines 82-97: the points of the contour on the arc, appended to the table
Expanded(table, labels, last) ==
    Only({IF l0[1].xyz = NoPoint THEN Raised(table, GeometryError)
          ELSE Only({[df |-> append_ps_to_df(table, ps), other_ps |-> ps, err |-> NoError] :
                     ps \in {DictOf(labels, l0, FirstAssignments(labels))}}) :
          l0 \in {last}})

\* lines 77-97: the three reference points as get_xyz gave them, [err, xyz] each
FromReferences(table, labels, p1, p2, p3) ==
    Only({IF r1.err # NoError THEN Raised(table, r1.err)
          ELSE IF r2.err # NoError THEN Raised(table, r2.err)
          ELSE IF r3.err # NoError THEN Raised(table, r3.err)
          ELSE Expanded(table, labels, LastAssignments(<<r1.xyz, r2.xyz, r3.xyz>>, labels)) :
          r1 \in {p1}, r2 \in {p2}, r3 \in {p3}})

\* lines 68-97: [df, other_ps, err], the table after the contour was expanded,
\* or the ValueError that ended the pass
add_points_along_contour(table, labels) ==
    Only({IF mid < 0 THEN Raised(table, LengthError(Len(labels)))
          ELSE FromReferences(table, labels, get_xyz(table, labels[1]),
                              get_xyz(table, labels[mid + 1]),
                              get_xyz(table, labels[Len(labels)])) :
          mid \in {midpoint_idx(Len(labels))}})

----------------------------------------------------------------------------
(* State *)

VARIABLES
    pc,        \* where the run stands
    args,      \* solver harness: the arguments [p1, p2, p3, frac] of the current call
    point,     \* solver harness: what the last call returned (NoPoint: it raised)
    prev,      \* solver harness: the earlier calls, <<[args, point], ...>>
    equator,   \* the equator convention of the run
    df,        \* the data frame: [columns, rows], a row being [label, xyz]
    contour,   \* the contour of the current (or last) expansion
    other_ps,  \* the points the last step proposed, <<[label, xyz], ...>>
    err,       \* the ValueError that ended the run, <<>> while there is none
    first_len, \* len(catalog[0]): the length of the first contour of the catalog
    early,     \* the contours of catalog[:-5] processed so far
    late,      \* the contours of catalog[-5:] processed so far
    call,      \* get_elec_coords: the arguments of the call
    config,    \* get_elec_coords: the contour catalog and the mne installed
    names,     \* get_elec_coords: elec_names and what the alias loop noted
    coords     \* get_elec_coords: what the call returned

arcVars == <<args, point, prev>>
tableVars == <<equator, df, contour, other_ps, err, first_len, early, late>>
coordsVars == <<call, config, names, coords>>
vars == <<pc, args, point, prev, equator, df, contour, other_ps, err, first_len, early, late,
          call, config, names, coords>>

\* the table variables while only the solver runs
NoTable ==
    /\ equator = ""
    /\ df = [columns |-> {}, rows |-> <<>>]
    /\ contour = <<>>
    /\ other_ps = <<>>
    /\ err = <<>>
    /\ first_len = 0
    /\ early = 0
    /\ late = 0

\* nothing was returned (yet)
NoCoords == [columns |-> {}, rows |-> <<>>]

\* the variables of get_elec_coords while it is not called
NoCall ==
    /\ call = <<>>
    /\ config = <<>>
    /\ names = <<>>
    /\ coords = NoCoords

\* the solver harness variables while the table is computed
NoArc ==
    /\ args = [p1 |-> <<0, 0, 0>>, p2 |-> <<0, 0, 0>>, p3 |-> <<0, 0, 0>>, frac |-> <<0, 1>>]
    /\ point = NoPoint
    /\ prev = <<>>

----------------------------------------------------------------------------
(* The solver called as tests/test_utils.py calls it *)

\* coordinates 1.0 as a four-place decimal
Unit == 10000

Neg(p) == <<-p[1], -p[2], -p[3]>>
Plus(p, q) == <<p[1] + q[1], p[2] + q[2], p[3] + q[3]>>
Times(k, p) == <<k * p[1], k * p[2], k * p[3]>>
SqNorm(p) == p[1] * p[1] + p[2] * p[2] + p[3] * p[3]
Dot(p, q) == p[1] * q[1] + p[2] * q[2] + p[3] * q[3]
Minus(p, q) == <<p[1] - q[1], p[2] - q[2], p[3] - q[3]>>
\* the exact cross product of decimal vectors
Cross(p, q) == <<p[2] * q[3] - p[3] * q[2], p[3] * q[1] - p[1] * q[3], p[1] * q[2] - p[2] * q[1]>>

\* the points with coordinates -1, 0, 1, the origin left out: three spheres
GridPoints ==
    {<<x, y, z>> : x \in {-Unit, 0, Unit}, y \in {-Unit, 0, Unit}, z \in {-Unit, 0, Unit}}
    \ {<<0, 0, 0>>}

\* triples on a common sphere about the origin (equal points included)
SphereTriples ==
    {t \in GridPoints \X GridPoints \X GridPoints :
        SqNorm(t[1]) = SqNorm(t[2]) /\ SqNorm(t[2]) = SqNorm(t[3])}

\* three distinct points on a line: a, a + d, a + k d
LineTriples ==
    {<<a, Plus(a, d), Plus(a, Times(k, d))>> :
        a \in {<<0, 0, 0>>, <<-Unit, 0, 0>>, <<1000, 2000, 0>>, <<1000, 1000, 0>>},
        d \in {<<Unit, 0, 0>>, <<1000, 1000, 0>>, <<1000, -1000, 0>>, <<1000, 3000, 0>>},
        k \in {2, 3}}

\* a point of the unit sphere off the axes, between (1,0,0) and (-1,0,0)
OffAxisTriples ==
    {<<<<Unit, 0, 0>>, <<6000, 0, 8000>>, <<-Unit, 0, 0>>>>,
     <<<<Unit, 0, 0>>, <<0, 6000, 8000>>, <<-Unit, 0, 0>>>>}

Triples == SphereTriples \cup LineTriples \cup OffAxisTriples

\* frac as <<numerator, denominator>>
Fracs == {<<0, 1>>, <<1, 2>>, <<1, 1>>, <<3, 2>>, <<2, 1>>, <<5, 2>>, <<3, 4>>}
ReuseFracs == {<<2, 6>>, <<4, 6>>, <<3, 4>>}

\* calls in one chain (test_find_point_at_fraction chains two: pstar, then point)
MaxCalls == 2

InitArc ==
    /\ pc = "call"
    /\ args \in {[p1 |-> t[1], p2 |-> t[2], p3 |-> t[3], frac |-> f] : t \in Triples, f \in Fracs}
    /\ point = NoPoint
    /\ prev = <<>>
    /\ NoTable
    /\ NoCall

\* point = find_point_at_fraction(p1, p2, p3, frac)
Solve ==
    /\ pc = "call"
    /\ point' = find_point_at_fraction(args.p1, args.p2, args.p3, args.frac)
    /\ pc' = IF point' = NoPoint THEN "raised" ELSE "returned"
    /\ UNCHANGED <<args, prev>>
    /\ UNCHANGED <<tableVars, coordsVars>>

\* point = find_point_at_fraction(p1, pstar, p4, frac) with pstar the point
\* just returned and p4 the antipode of the old p2
Reuse ==
    /\ pc = "returned"
    /\ Len(prev) + 1 < MaxCalls
    /\ args.frac = <<3, 4>>
    /\ \E f \in ReuseFracs :
          args' = [p1 |-> args.p1, p2 |-> point, p3 |-> Neg(args.p2), frac |-> f]
    /\ prev' = Append(prev, [args |-> args, point |-> point])
    /\ pc' = "call"
    /\ UNCHANGED point
    /\ UNCHANGED <<tableVars, coordsVars>>

NextArc == Solve \/ Reuse

SpecArc == InitArc /\ [][NextArc]_vars

----------------------------------------------------------------------------
(* calc_positions.py: the computation of the table *)

\* compute.py line 279: the two equator conventions
ACCEPTED_EQUATORS == {"Nz-T10-Iz-T9", "Fpz-T8-Oz-T7"}

\* lines 35-45: the known locations
front == <<0, Unit, 0>>
right == <<Unit, 0, 0>>
back == <<0, -Unit, 0>>
left == <<-Unit, 0, 0>>
Cz == <<0, 0, Unit>>

\* the characters of the name of an equator convention
EquatorChars(eq) ==
    IF eq = "Nz-T10-Iz-T9"
    THEN <<"N", "z", "-", "T", "1", "0", "-", "I", "z", "-", "T", "9">>
    ELSE <<"F", "p", "z", "-", "T", "8", "-", "O", "z", "-", "T", "7">>

\* str.split(sep) from the character i on: cur is the piece being read and
\* acc the pieces read
RECURSIVE SplitFrom(_, _, _, _, _)
SplitFrom(chars, sep, i, cur, acc) ==
    IF i > Len(chars) THEN Append(acc, cur)
    ELSE IF chars[i] = sep THEN SplitFrom(chars, sep, i + 1, "", Append(acc, cur))
    ELSE SplitFrom(chars, sep, i + 1, cur \o chars[i], acc)

\* str.split(sep): the pieces between the separators, in order
split(chars, sep) == SplitFrom(chars, sep, 1, "", <<>>)

\* line 50: equator.split("-") + ["Cz"]
SeedLabels(eq) == split(EquatorChars(eq), "-") \o <<"Cz">>

\* the five known locations with the left and the right one exchanged
SeedTableMirrored(eq) ==
    [columns |-> {"label", "x", "y", "z"},
     rows |-> <<[label |-> SeedLabels(eq)[1], xyz |-> front],
                [label |-> SeedLabels(eq)[2], xyz |-> left],
                [label |-> SeedLabels(eq)[3], xyz |-> back],
                [label |-> SeedLabels(eq)[4], xyz |-> right],
                [label |-> SeedLabels(eq)[5], xyz |-> Cz]>>]

\* lines 49-56: the data frame of the five known locations
SeedTable(eq) ==
    [columns |-> {"label", "x", "y", "z"},
     rows |-> <<[label |-> SeedLabels(eq)[1], xyz |-> front],
                [label |-> SeedLabels(eq)[2], xyz |-> right],
                [label |-> SeedLabels(eq)[3], xyz |-> back],
                [label |-> SeedLabels(eq)[4], xyz |-> left],
                [label |-> SeedLabels(eq)[5], xyz |-> Cz]>>]

\* contours as the catalogs list them, each from its first reference point to
\* its last: the midline, the central coronal line, the left ring at the
\* height of Fpz and the left ring at the height of Nz
Midline21 ==
    <<"Nz", "NFpz", "Fpz", "AFpz", "AFz", "AFFz", "Fz", "FFCz", "FCz", "FCCz", "Cz",
      "CCPz", "CPz", "CPPz", "Pz", "PPOz", "POz", "POOz", "Oz", "OIz", "Iz">>
Midline17 == SubSeq(Midline21, 3, 19)
Coronal21 ==
    <<"T9", "T9h", "T7", "T7h", "C5", "C5h", "C3", "C3h", "C1", "C1h", "Cz",
      "C2h", "C2", "C4h", "C4", "C6h", "C6", "T8h", "T8", "T10h", "T10">>
LeftRing21 ==
    <<"Fpz", "Fp1h", "Fp1", "AFp7", "AF7", "AFF7", "F7", "FFT7", "FT7", "FTT7", "T7",
      "TTP7", "TP7", "TPP7", "P7", "PPO7", "PO7", "POO7", "O1", "O1h", "Oz">>
LeftLowRing21 ==
    <<"Nz", "N1h", "N1", "AFp9", "AF9", "AFF9", "F9", "FFT9", "FT9", "FTT9", "T9",
      "TTP9", "TP9", "TPP9", "P9", "PPO9", "PO9", "POO9", "I1", "I1h", "Iz">>

\* contours no catalog has, of the kinds the loop does not rule out: one that
\* lists labels twice and lists Cz off the middle, and one of a wrong length
Repeating17(first, last) ==
    <<first, "Cz", "AFz", "AFz", "Fz", "FCz", "FCz", "FCCz", "Cz",
      "CPz", "Pz", "POz", "POz", "CPz", "PPOz", "Cz", last>>
Short16 == SubSeq(Midline17, 1, 16)

\* the contours a catalog of the convention may hold
Contours(eq) ==
    IF eq = "Nz-T10-Iz-T9"
    THEN {Midline21, Coronal21, LeftRing21, Repeating17("Nz", "Iz"), Short16}
    ELSE {Midline17, LeftRing21, Repeating17("Fpz", "Oz"), Short16}

\* the contours the last five of the Fpz catalog may be
LateContours == {Midline21, LeftLowRing21, Repeating17("Nz", "Iz")}

\* line 64: the number of contours drawn after the manual step
LateCount == 5

\* the longest catalog[:-5] followed
MaxEarly == 2

\* lines 103-105: other_ps[label] = find_point_at_fraction(*arc, frac=1 + k / len)
ManualPoint(label, arc, k, len) ==
    [label |-> label,
     xyz |-> find_point_at_fraction(arc[1], arc[2], arc[3], <<len + k, len>>)]

\* lines 101-126: other_ps of the manual step, len being len(catalog[0])
ManualPs(len) ==
    <<ManualPoint("OIz", <<front, Cz, back>>, 1, len),
      ManualPoint("Iz", <<front, Cz, back>>, 2, len),
      ManualPoint("NFpz", <<back, Cz, front>>, 1, len),
      ManualPoint("Nz", <<back, Cz, front>>, 2, len),
      ManualPoint("T10h", <<left, Cz, right>>, 1, len),
      ManualPoint("T10", <<left, Cz, right>>, 2, len),
      ManualPoint("T9h", <<right, Cz, left>>, 1, len),
      ManualPoint("T9", <<right, Cz, left>>, 2, len)>>

\* lines 30-64: the equator is chosen and the table is seeded
Init ==
    /\ equator \in ACCEPTED_EQUATORS
    /\ df = SeedTable(equator)
    /\ pc = "contours"
    /\ contour = <<>>
    /\ other_ps = <<>>
    /\ err = NoError
    /\ first_len = 0
    /\ early = 0
    /\ late = 0
    /\ NoArc
    /\ NoCall

\* the table variables after one pass of the loop over the contour c
Pass(c) ==
    \E r \in {add_points_along_contour(df, c)}:
        /\ contour' = c
        /\ df' = r.df
        /\ other_ps' = r.other_ps
        /\ err' = r.err

\* lines 66-97: one pass of the first loop
Expand ==
    /\ pc = "contours"
    /\ early < MaxEarly
    /\ \E c \in Contours(equator):
        /\ Pass(c)
        /\ first_len' = IF early = 0 THEN Len(c) ELSE first_len
    /\ early' = early + 1
    /\ pc' = IF err' # NoError THEN "failed" ELSE "contours"
    /\ UNCHANGED <<equator, late>>
    /\ UNCHANGED <<arcVars, coordsVars>>

\* line 66, line 99: the first loop is through; the Nz table is complete
EndOfContours ==
    /\ pc = "contours"
    /\ early > 0
    /\ pc' = IF equator = "Fpz-T8-Oz-T7" THEN "manual" ELSE "done"
    /\ UNCHANGED <<equator, df, contour, other_ps, err, first_len, early, late>>
    /\ UNCHANGED <<arcVars, coordsVars>>

\* lines 99-135: the manual step of the Fpz convention
Manual ==
    /\ pc = "manual"
    /\ other_ps' = ManualPs(first_len)
    /\ df' = append_ps_to_df(df, other_ps')
    /\ contour' = <<>>
    /\ pc' = "late"
    /\ UNCHANGED <<equator, err, first_len, early, late>>
    /\ UNCHANGED <<arcVars, coordsVars>>

\* lines 138-169: one pass of the loop over the last five contours
ExpandLate ==
    /\ pc = "late"
    /\ \E c \in LateContours: Pass(c)
    /\ late' = late + 1
    /\ pc' = IF err' # NoError THEN "failed"
             ELSE IF late' = LateCount THEN "done" ELSE "late"
    /\ UNCHANGED <<equator, first_len, early>>
    /\ UNCHANGED <<arcVars, coordsVars>>

Next == Expand \/ EndOfContours \/ Manual \/ ExpandLate

Spec == Init /\ [][Next]_vars

----------------------------------------------------------------------------
(* One pass of the contour loop on any table and any contour
   (test_utils.py: test_add_points_along_contour) *)

\* list(range(n)) as labels
Numbered(n) == [i \in 1..n |-> ToString(i - 1)]

\* the rows of the five known locations with one of them changed or added
SeedRows == SeedTable("Nz-T10-Iz-T9").rows

\* tables handed to the pass: the two seed tables, a thing without columns,
\* a table without the z column, a table without rows, a table with two rows
\* for Cz, and a table whose Nz and Iz coincide
Tables ==
    {SeedTable("Nz-T10-Iz-T9"),
     SeedTable("Fpz-T8-Oz-T7"),
     [columns |-> {}, rows |-> <<>>],
     [columns |-> {"label", "x", "y"}, rows |-> SeedRows],
     [columns |-> {"label", "x", "y", "z"}, rows |-> <<>>],
     [columns |-> {"label", "x", "y", "z"},
      rows |-> Append(SeedRows, [label |-> "Cz", xyz |-> <<0, 6000, 8000>>])],
     [columns |-> {"label", "x", "y", "z"},
      rows |-> [SeedRows EXCEPT ![3] = [label |-> "Iz", xyz |-> front]]]}

\* the lengths of the contours handed to the pass that are neither 17 nor 21
WrongLengths == {0, 1, 16, 18, 20, 22, 40}

\* contours handed to the pass
ContourArgs ==
    {Numbered(n) : n \in WrongLengths}
    \cup {SubSeq(Midline21 \o Coronal21, 1, n) : n \in WrongLengths}
    \cup {Midline21, Midline17, Coronal21, Repeating17("Nz", "Iz")}

InitContour ==
    /\ pc = "pass"
    /\ df \in Tables
    /\ contour \in ContourArgs
    /\ equator = ""
    /\ other_ps = <<>>
    /\ err = NoError
    /\ first_len = 0
    /\ early = 0
    /\ late = 0
    /\ NoArc
    /\ NoCall

\* add_points_along_contour(df, contour)
ExpandContour ==
    /\ pc = "pass"
    /\ Pass(contour)
    /\ pc' = IF err' # NoError THEN "pass raised" ELSE "pass returned"
    /\ UNCHANGED <<equator, first_len, early, late>>
    /\ UNCHANGED <<arcVars, coordsVars>>

NextContour == ExpandContour

SpecContour == InitContour /\ [][NextContour]_vars

----------------------------------------------------------------------------
(* compute.py: get_elec_coords *)

\* contours of the catalogs beside the ones above: the central coronal line
\* between T7 and T8 and the right ring at the height of Nz
Coronal17 == SubSeq(Coronal21, 3, 19)
RightLowRing21 ==
    <<"Nz", "N2h", "N2", "AFp10", "AF10", "AFF10", "F10", "FFT10", "FT10",
      "FTT10", "T10", "TTP10", "TP10", "TPP10", "P10", "PPO10", "PO10",
      "POO10", "I2", "I2h", "Iz">>

\* a contour of 17 labels that ends where it starts
Closed17 == [Midline17 EXCEPT ![1] = "Nz", ![17] = "Nz"]

\* the catalogs of the two conventions, cut down to five contours
CONTOUR_ORDER_Nz_EQUATOR ==
    <<Midline21, Coronal21, LeftRing21, LeftLowRing21, RightLowRing21>>
CONTOUR_ORDER_Fpz_EQUATOR ==
    <<Midline17, Coronal17, Midline21, Coronal21, LeftLowRing21, RightLowRing21,
      LeftRing21>>

\* catalogs with a contour that cannot be drawn: one of a wrong length, one
\* whose first reference point is not in the table yet, one whose reference
\* points coincide
BadCatalogs(eq) ==
    IF eq = "Nz-T10-Iz-T9"
    THEN {<<Midline21, Short16, Coronal21>>,
          <<LeftRing21, Midline21>>,
          <<Midline21, Closed17, Coronal21>>}
    ELSE {<<Short16, Midline17, Midline21, Coronal21, LeftLowRing21, RightLowRing21,
            LeftRing21>>,
          <<Midline17, Midline21, Coronal21, Short16, LeftLowRing21, RightLowRing21>>,
          <<Midline17, LeftLowRing21, Midline21>>}

\* the labels of a list
Range(s) == {s[k] : k \in 1..Len(s)}

\* the electrode names of the three systems, as far as they lie on the
\* contours above
SYSTEM1005 ==
    UNION {Range(c) : c \in {Midline21, Coronal21, LeftRing21, LeftLowRing21,
                             RightLowRing21}}
SYSTEM1020 ==
    {"Fp1", "Fpz", "F7", "Fz", "T7", "C3", "Cz", "C4", "T8", "P7", "Pz", "O1", "Oz"}
SYSTEM1010 ==
    SYSTEM1020 \cup {"Nz", "Iz", "T9", "T10", "AFz", "FCz", "CPz", "POz", "AF7", "FT7",
                     "TP7", "PO7", "C5", "C1", "C2", "C6", "F9", "FT9", "TP9", "P9",
                     "F10", "FT10", "TP10", "P10"}

\* line 132 (the docstring of get_available_elec_names)
LANDMARKS == <<"LPA", "RPA", "NAS">>

\* line 282
systems == [s1020 |-> SYSTEM1020, s1010 |-> SYSTEM1010, s1005 |-> SYSTEM1005]
SystemKey(system) == "s" \o system

\* lines 62-67: the alias mapping; str is the value as it is written, name
\* what is before its "+" (all of it when it has none) and mod the tuple
\* after the "+", in units of the fourth decimal
alias_mapping ==
    [A1 |-> [str |-> "LPA+(-0.1, -0.01, -0.01)", name |-> "LPA", mod |-> <<-1000, -100, -100>>],
     A2 |-> [str |-> "RPA+(0.1, -0.01, -0.01)", name |-> "RPA", mod |-> <<1000, -100, -100>>],
     M1 |-> [str |-> "TP9", name |-> "TP9", mod |-> <<>>],
     M2 |-> [str |-> "TP10", name |-> "TP10", mod |-> <<>>]]

\* "+(" in alias
IsOffsetAlias(alias) == alias.mod # <<>>

\* line 140: get_available_elec_names("all")
get_available_elec_names == SYSTEM1005 \cup Range(LANDMARKS) \cup DOMAIN alias_mapping

\* isinstance(val, bool), the values being written as Python writes them
IsBool(val) == val \in {"True", "False"}

\* the input checks without the check of dim
InputErrorAnyDim(c) ==
    IF c.equator \notin ACCEPTED_EQUATORS
    THEN <<"equator must be one of", ACCEPTED_EQUATORS>>
    ELSE IF SystemKey(c.system) \notin DOMAIN systems
    THEN <<"system must be one of", <<"1020", "1010", "1005">> >>
    ELSE IF c.elec_names.type \notin {"list", "NoneType"}
    THEN <<"elec_names must be a list of str or None.">>
    ELSE IF Range(c.elec_names.items) \ get_available_elec_names # {}
    THEN <<"For some elec_names there are no available positions",
           Range(c.elec_names.items) \ get_available_elec_names>>
    ELSE IF ~IsBool(c.as_mne_montage)
    THEN <<"must be a boolean value, but found", "as_mne_montage", c.as_mne_montage>>
    ELSE IF ~IsBool(c.drop_landmarks)
    THEN <<"must be a boolean value, but found", "drop_landmarks", c.drop_landmarks>>
    ELSE NoError

\* lines 279-310: the ValueError of the input checks, NoError if all pass
InputError(c) ==
    IF c.equator \notin ACCEPTED_EQUATORS
    THEN <<"equator must be one of", ACCEPTED_EQUATORS>>
    ELSE IF SystemKey(c.system) \notin DOMAIN systems
    THEN <<"system must be one of", <<"1020", "1010", "1005">> >>
    ELSE IF c.elec_names.type \notin {"list", "NoneType"}
    THEN <<"elec_names must be a list of str or None.">>
    ELSE IF Range(c.elec_names.items) \ get_available_elec_names # {}
    THEN <<"For some elec_names there are no available positions",
           Range(c.elec_names.items) \ get_available_elec_names>>
    ELSE IF c.dim \notin {"2d", "3d"}
    THEN <<"dim must be one of", <<"2d", "3d">> >>
    ELSE IF ~IsBool(c.as_mne_montage)
    THEN <<"must be a boolean value, but found", "as_mne_montage", c.as_mne_montage>>
    ELSE IF ~IsBool(c.drop_landmarks)
    THEN <<"must be a boolean value, but found", "drop_landmarks", c.drop_landmarks>>
    ELSE NoError

\* list.index(x): the first place of x in the list
index(list, x) ==
    CHOOSE k \in 1..Len(list): list[k] = x /\ \A j \in 1..(k - 1): list[j] # x

\* lines 332-338 without the check that the position is not named twice
AliasStepUnchecked(s, name) ==
    IF name \notin DOMAIN alias_mapping THEN s
    ELSE IF ~IsOffsetAlias(alias_mapping[name])
    THEN [s EXCEPT !.elec_names[index(s.elec_names, name)] = alias_mapping[name].str,
                   !.replaced = Append(@, <<alias_mapping[name].str, name>>)]
    ELSE [s EXCEPT !.special = Append(@, alias_mapping[name]),
                   !.replaced_special = Append(@, <<alias_mapping[name].name, name>>)]

\* the body of the alias loop writing the name of every alias to the list,
\* LPA and RPA for the offset aliases
AliasStepAllInPlace(s, name) ==
    IF name \notin DOMAIN alias_mapping THEN s
    ELSE IF alias_mapping[name].str \in Range(s.elec_names)
    THEN [s EXCEPT !.err = <<"You specified the same electrode position using two aliases",
                             name, alias_mapping[name].str>>]
    ELSE IF ~IsOffsetAlias(alias_mapping[name]) THEN AliasStepUnchecked(s, name)
    ELSE [AliasStepUnchecked(s, name) EXCEPT
              !.elec_names[index(s.elec_names, name)] = alias_mapping[name].name]

\* lines 325-351: the body of the alias loop for one name of elec_names
AliasStep(s, name) ==
    IF name \notin DOMAIN alias_mapping THEN s
    ELSE IF alias_mapping[name].str \in Range(s.elec_names)
    THEN [s EXCEPT !.err = <<"You specified the same electrode position using two aliases",
                             name, alias_mapping[name].str>>]
    ELSE AliasStepUnchecked(s, name)

\* lines 325-351: the loop from the i-th entry of elec_names on, elec_names
\* being the list the loop writes to
RECURSIVE AliasLoop(_, _)
AliasLoop(s, i) ==
    Only({IF i > Len(s0.elec_names) \/ s0.err # NoError THEN s0
          ELSE AliasLoop(AliasStep(s0, s0.elec_names[i]), i + 1) :
          s0 \in {s}})

\* lines 312-351: elec_names as the loop leaves it, the offset aliases in
\* elec_names_special, the two dicts of replaced names as lists of
\* <<key, value>>, and the ValueError if the loop raised one
handle_aliases(elec_names) ==
    AliasLoop([elec_names |-> elec_names, special |-> <<>>, replaced |-> <<>>,
               replaced_special |-> <<>>, err |-> NoError], 1)

\* Series.replace(to_replace=d) on one label: the value of the key, the last
\* one written
replace(label, d) ==
    IF \E k \in 1..Len(d): d[k][1] = label
    THEN d[CHOOSE k \in 1..Len(d):
               d[k][1] = label /\ \A j \in (k + 1)..Len(d): d[j][1] # label][2]
    ELSE label

\* the rows with their labels replaced
Relabelled(rows, d) ==
    Only({[k \in 1..Len(r) |-> [r[k] EXCEPT !.label = replace(@, d0)]] :
          r \in {rows}, d0 \in {d}})

\* df.label.isin(labels): the rows whose label is among the labels
isin(rows, labels) == SelectSeq(rows, LAMBDA r: r.label \in labels)

\* the landmarks with the left and the right one exchanged
WithLandmarksExchanged(table) ==
    [table EXCEPT !.rows =
        @ \o Relabelled(isin(@, {"Nz", "T9", "T10"}),
                        <<<<"Nz", "NAS">>, <<"T9", "RPA">>, <<"T10", "LPA">> >>)]

\* lines 412-416: the rows of Nz, T9 and T10 once more as NAS, LPA and RPA,
\* after the rows of the table
with_landmarks(table) ==
    [table EXCEPT !.rows =
        @ \o Relabelled(isin(@, {"Nz", "T9", "T10"}),
                        <<<<"Nz", "NAS">>, <<"T9", "LPA">>, <<"T10", "RPA">> >>)]

\* coordinates that are missing
NaN == <<>>

\* the one row of the label
RowOf(rows, label) == rows[CHOOSE k \in 1..Len(rows): rows[k].label = label]

\* line 433: set_index("label").reindex(elec_names).reset_index(): a row for
\* each name, in the order of the names, without coordinates if there is none
reindex(rows, elec_names) ==
    Only({[k \in 1..Len(elec_names) |->
              IF \E j \in 1..Len(r): r[j].label = elec_names[k]
              THEN RowOf(r, elec_names[k])
              ELSE [label |-> elec_names[k], xyz |-> NaN]] :
          r \in {rows}})

\* lines 428-437 without the reindex
SubselectionUnordered(table, elec_names, system, sort) ==
    IF Len(elec_names) > 0 THEN isin(table.rows, Range(elec_names))
    ELSE isin(table.rows, system \cup Range(LANDMARKS))

\* df_selection with the names looked up among the positions of the system
SubselectionOfSystem(table, elec_names, system, sort) ==
    IF Len(elec_names) > 0
    THEN IF ~sort
         THEN reindex(isin(table.rows, Range(elec_names) \cap system), elec_names)
         ELSE isin(table.rows, Range(elec_names) \cap system)
    ELSE isin(table.rows, system \cup Range(LANDMARKS))

\* lines 428-437: df_selection
Subselection(table, elec_names, system, sort) ==
    IF Len(elec_names) > 0
    THEN IF ~sort THEN reindex(isin(table.rows, Range(elec_names)), elec_names)
         ELSE isin(table.rows, Range(elec_names))
    ELSE isin(table.rows, system \cup Range(LANDMARKS))

\* line 445: original + modifier
Offset(xyz, mod) == <<xyz[1] + mod[1], xyz[2] + mod[2], xyz[3] + mod[3]>>

\* lines 440-455: the rows of the offset aliases, under the names asked for
SpecialRows(table, special, replaced_special) ==
    [k \in 1..Len(special) |->
        [label |-> replace(special[k].name, replaced_special),
         xyz |-> Offset(RowOf(table.rows, special[k].name).xyz, special[k].mod)]]

\* the string order of the labels (sort_values compares code points)
CodePointOrder ==
  <<"A1", "A2", "AF10", "AF7", "AF9", "AFF10", "AFF7", "AFF9", "AFFz",
    "AFp10", "AFp7", "AFp9", "AFpz", "AFz", "C1", "C1h", "C2", "C2h", "C3",
    "C3h", "C4", "C4h", "C5", "C5h", "C6", "C6h", "CCPz", "CPPz", "CPz",
    "Cz", "F10", "F7", "F9", "FCCz", "FCz", "FFCz", "FFT10", "FFT7", "FFT9",
    "FT10", "FT7", "FT9", "FTT10", "FTT7", "FTT9", "Fp1", "Fp1h", "Fpz",
    "Fz", "I1", "I1h", "I2", "I2h", "Iz", "LPA", "M1", "M2", "N1", "N1h",
    "N2", "N2h", "NAS", "NFpz", "Nz", "O1", "O1h", "OIz", "Oz", "P10", "P7",
    "P9", "PO10", "PO7", "PO9", "POO10", "POO7", "POO9", "POOz", "POz",
    "PPO10", "PPO7", "PPO9", "PPOz", "Pz", "RPA", "T10", "T10h", "T7", "T7h",
    "T8", "T8h", "T9", "T9h", "TP10", "TP7", "TP9", "TPP10", "TPP7", "TPP9",
    "TTP10", "TTP7", "TTP9">>

\* line 529: sort_values(by="label") of rows that have no label twice
SortedBy(rows, labels) == Only({[k \in 1..Len(ls) |-> RowOf(rows, ls[k])] : ls \in {labels}})
sort_values(rows) ==
    Only({SortedBy(r, SelectSeq(CodePointOrder,
                                LAMBDA l: \E j \in 1..Len(r): r[j].label = l)) :
          r \in {rows}})

\* the projection from the point two radii below the centre, (0, 0, -2)
ProjectionOfScale2(xyz) ==
    IF xyz = NaN THEN NaN
    ELSE Only({<<Mul(FromDec4(xyz[1]), mu), Mul(FromDec4(xyz[2]), mu)>> :
               mu \in {Div(One, 2 * One + FromDec4(xyz[3]))}})

\* utils.py lines 294-297: mu = 1.0 / (scale + z) with scale = 1.0, x * mu and
\* y * mu, as floats; <<>> where a coordinate is missing or scale + z is 0
stereographic_projection(xyz) ==
    IF xyz = NaN THEN NaN
    ELSE IF One + FromDec4(xyz[3]) = 0 THEN NaN
    ELSE Only({<<Mul(FromDec4(xyz[1]), mu), Mul(FromDec4(xyz[2]), mu)>> :
               mu \in {Div(One, One + FromDec4(xyz[3]))}})

\* lines 517-525: the table with the columns label, x and y
Projected(rows) ==
    Only({[k \in 1..Len(r) |-> [r[k] EXCEPT !.xyz = stereographic_projection(@)]] :
          r \in {rows}})

\* the rows as they are, landmarks included
WithLandmarksKept(rows) == rows

\* lines 512-513
WithoutLandmarks(rows) == SelectSeq(rows, LAMBDA r: r.label \notin {"NAS", "LPA", "RPA"})

\* lines 510-531: the data frame returned
AsDataFrame(rows, c) ==
    [columns |-> IF c.dim = "2d" THEN {"label", "x", "y"} ELSE {"label", "x", "y", "z"},
     rows |-> IF c.sort THEN sort_values(drop_duplicates(rows))
              ELSE drop_duplicates(rows)]

\* lines 510-525: the landmarks dropped and the rows projected, if asked for
Reduced(rows, c) ==
    Only({IF c.dim = "2d" THEN Projected(r) ELSE r :
          r \in {IF c.drop_landmarks = "True" THEN WithoutLandmarks(rows) ELSE rows}})

\* lines 439-461: df_selection with the rows of the offset aliases added and
\* the replaced names put back
Renamed(table, sel, n) ==
    Relabelled(sel \o SpecialRows(table, n.special, n.replaced_special), n.replaced)

\* lines 426-461: df_selection before it is returned
Selected(table, c, n) ==
    Renamed(table,
            Subselection(table, n.elec_names, systems[SystemKey(c.system)], c.sort),
            n)

\* lines 376-377: catalog[:-5] and catalog[-5:]
AllButLast5(s) == SubSeq(s, 1, Len(s) - 5)
Last5(s) == SubSeq(s, Max2(1, Len(s) - 4), Len(s))

\* the whole catalog drawn in the first loop under either convention
ContourOrderWhole(cfg, eq) == IF eq = "Nz-T10-Iz-T9" THEN cfg.Nz ELSE cfg.Fpz

\* lines 372-377: the contours drawn first and the ones drawn after the manual step
contour_order(cfg, eq) == IF eq = "Nz-T10-Iz-T9" THEN cfg.Nz ELSE AllButLast5(cfg.Fpz)
contour_order_late(cfg) == Last5(cfg.Fpz)

\* lines 388-395: the labels, the factors and the arcs of the manual step
p_to_find == <<"OIz", "Iz", "NFpz", "Nz", "T10h", "T10", "T9h", "T9">>
p_fracs == <<1, 2, 1, 2, 1, 2, 1, 2>>
Reversed(s) == [k \in 1..Len(s) |-> s[Len(s) + 1 - k]]
Twice(s) == s \o s

\* the arcs with the last one turned round, (left, top, right)
PArcLastTurned ==
    Twice(<< <<front, Cz, back>> >>) \o Twice(<< <<back, Cz, front>> >>)
    \o Twice(<< <<left, Cz, right>> >>) \o Twice(<< Reversed(<<right, Cz, left>>) >>)

p_arc ==
    Twice(<< <<front, Cz, back>> >>) \o Twice(<< <<back, Cz, front>> >>)
    \o Twice(<< <<left, Cz, right>> >>) \o Twice(Reversed(<< <<right, Cz, left>> >>))

\* lines 397-400: other_ps of the manual step, len being len(catalog[0])
manual_ps(len) ==
    [k \in 1..Len(p_to_find) |-> ManualPoint(p_to_find[k], p_arc[k], p_fracs[k], len)]

\* mne.defaults.HEAD_SIZE_DEFAULT, in thousandths
HeadSize == 95

\* lines 495-501: coordinates times the head size, as floats
ScaledToHead(xyz) ==
    IF xyz = NaN THEN NaN
    ELSE <<DivInt(FromDec4(xyz[1]) * HeadSize, 1000),
           DivInt(FromDec4(xyz[2]) * HeadSize, 1000),
           DivInt(FromDec4(xyz[3]) * HeadSize, 1000)>>

\* lines 484-505: the montage: the channel positions without the landmarks,
\* and the three landmarks as the table has them
Montage(table, rows) ==
    Only({[columns |-> {"ch_pos", "nasion", "lpa", "rpa"},
           rows |-> [k \in 1..Len(r) |-> [r[k] EXCEPT !.xyz = ScaledToHead(@)]],
           nasion |-> ScaledToHead(RowOf(table.rows, "NAS").xyz),
           lpa |-> ScaledToHead(RowOf(table.rows, "LPA").xyz),
           rpa |-> ScaledToHead(RowOf(table.rows, "RPA").xyz)] :
          r \in {WithoutLandmarks(drop_duplicates(rows))}})

\* the error of the import of mne if the version found is not looked at
ImportErrorAnyVersion(mne) ==
    IF mne = "absent" THEN <<"if as_mne_montage is True, you must have mne installed.">>
    ELSE NoError

\* lines 465-482: the error of the import of mne, NoError if it is recent
ImportError(mne) ==
    IF mne = "absent" THEN <<"if as_mne_montage is True, you must have mne installed.">>
    ELSE IF mne = "0.19.0"
    THEN <<"You need to update your mne installation.", mne>>
    ELSE NoError

----------------------------------------------------------------------------
(* get_elec_coords called as tests/test_compute.py calls it *)

None == [type |-> "NoneType", items |-> <<>>]
List(items) == [type |-> "list", items |-> items]

\* lines 148-156: the default arguments
DefaultCall ==
    [system |-> "1005", elec_names |-> None, drop_landmarks |-> "False", dim |-> "2d",
     as_mne_montage |-> "False", equator |-> "Nz-T10-Iz-T9", sort |-> FALSE]

\* values of elec_names: None, lists of available names with and without
\* aliases, lists that name a position twice, lists with a name that is not
\* available, and things that are no lists
ElecNames ==
    {None, List(<<>>), List(<<"Cz">>), List(<<"A1", "M1">>), List(<<"Fp1", "AFz">>),
     List(<<"TP9", "Cz", "M2">>), List(<<"M2", "A2", "Cz", "A1">>),
     List(<<"NAS", "Nz", "Cz">>), List(<<"T9", "A1", "LPA">>), List(<<"RPA", "Pz", "LPA", "A2">>),
     List(<<"M1", "TP9">>), List(<<"TP9", "M1">>), List(<<"Cz", "M2", "TP10">>),
     List(<<"M1", "Cz", "M1">>), List(<<"bogus">>), List(<<"Cz", "cz">>),
     [type |-> "str", items |-> <<"Cz">>], [type |-> "tuple", items |-> <<"Cz">>]}

\* the calls: every value of elec_names with every valid value of sort,
\* equator and drop_landmarks in 3D; two lists of names with every system;
\* the other arguments, valid or not, one or two at a time
Calls ==
    {[DefaultCall EXCEPT !.elec_names = e, !.sort = s, !.equator = q,
                         !.drop_landmarks = d, !.dim = "3d"] :
        e \in ElecNames, s \in BOOLEAN, q \in ACCEPTED_EQUATORS, d \in {"True", "False"}}
    \cup {[DefaultCall EXCEPT !.system = sy, !.dim = dm, !.equator = q] :
            sy \in {"1020", "1010", "1005", "1030", "all"}, dm \in {"2d", "3d", "4d"},
            q \in ACCEPTED_EQUATORS \cup {"Cz", "T10-Iz-T9-Nz"}}
    \cup {[DefaultCall EXCEPT !.elec_names = e, !.sort = s, !.system = sy] :
            e \in {List(<<"A1", "M1">>), List(<<"Fp1", "AFz">>)}, s \in BOOLEAN,
            sy \in {"1020", "1010", "1005"}}
    \cup {[DefaultCall EXCEPT !.as_mne_montage = a, !.drop_landmarks = d] :
            a \in {"True", "False", "'False'", "1"}, d \in {"True", "False", "'True'", "None"}}

\* the calls made to see the montage
MontageCalls ==
    {[DefaultCall EXCEPT !.as_mne_montage = "True", !.elec_names = e, !.equator = q] :
        e \in {None, List(<<"A1", "M1">>), List(<<"NAS", "Nz", "Cz">>)},
        q \in ACCEPTED_EQUATORS}

\* the configuration: the two catalogs and the mne that is installed
Config == [Nz |-> CONTOUR_ORDER_Nz_EQUATOR, Fpz |-> CONTOUR_ORDER_Fpz_EQUATOR, mne |-> "recent"]

NoNames ==
    [elec_names |-> <<>>, special |-> <<>>, replaced |-> <<>>, replaced_special |-> <<>>,
     err |-> NoError]

InitCoords ==
    /\ pc = "check"
    /\ \/ call \in Calls /\ config = Config
       \/ /\ call \in MontageCalls
          /\ config \in {[Config EXCEPT !.mne = m] : m \in {"absent", "0.19.0", "recent"}}
       \/ /\ call \in {[DefaultCall EXCEPT !.equator = q] : q \in ACCEPTED_EQUATORS}
          /\ config \in {[Config EXCEPT !.Nz = c] : c \in BadCatalogs("Nz-T10-Iz-T9")}
                        \cup {[Config EXCEPT !.Fpz = c] : c \in BadCatalogs("Fpz-T8-Oz-T7")}
    /\ equator = call.equator
    /\ names = NoNames
    /\ coords = NoCoords
    /\ df = [columns |-> {}, rows |-> <<>>]
    /\ contour = <<>>
    /\ other_ps = <<>>
    /\ err = NoError
    /\ first_len = 0
    /\ early = 0
    /\ late = 0
    /\ NoArc

\* lines 277-310: the input checks
CheckInputs ==
    /\ pc = "check"
    /\ err' = InputError(call)
    /\ pc' = IF err' # NoError THEN "raised" ELSE "aliases"
    /\ names' = IF err' # NoError THEN names
                ELSE [NoNames EXCEPT !.elec_names = call.elec_names.items]
    /\ UNCHANGED <<equator, df, contour, other_ps, first_len, early, late, call, config, coords>>
    /\ UNCHANGED arcVars

\* lines 312-351: the alias loop
HandleAliases ==
    /\ pc = "aliases"
    /\ names' = handle_aliases(names.elec_names)
    /\ err' = names'.err
    /\ pc' = IF err' # NoError THEN "raised" ELSE "seed"
    /\ UNCHANGED <<equator, df, contour, other_ps, first_len, early, late, call, config, coords>>
    /\ UNCHANGED arcVars

\* where the run stands when k contours of contour_order are drawn
AfterDraw(k) ==
    IF k < Len(contour_order(config, equator)) THEN "draw"
    ELSE IF equator = "Fpz-T8-Oz-T7" THEN "manual"
    ELSE "landmarks"

\* lines 355-377: the table of the known locations
Seed ==
    /\ pc = "seed"
    /\ df' = SeedTable(equator)
    /\ pc' = AfterDraw(0)
    /\ UNCHANGED <<equator, contour, other_ps, err, first_len, early, late>>
    /\ UNCHANGED <<arcVars, coordsVars>>

\* the first loop going on after a pass that raised
DrawOn ==
    /\ pc = "draw"
    /\ Pass(contour_order(config, equator)[early + 1])
    /\ early' = early + 1
    /\ pc' = AfterDraw(early')
    /\ UNCHANGED <<equator, first_len, late>>
    /\ UNCHANGED <<arcVars, coordsVars>>

\* lines 380-381: one pass of the first loop
Draw ==
    /\ pc = "draw"
    /\ Pass(contour_order(config, equator)[early + 1])
    /\ early' = early + 1
    /\ pc' = IF err' # NoError THEN "raised" ELSE AfterDraw(early')
    /\ UNCHANGED <<equator, first_len, late>>
    /\ UNCHANGED <<arcVars, coordsVars>>

\* lines 385-403: the manual step of the Fpz convention
ManualCoords ==
    /\ pc = "manual"
    /\ first_len' = Len(config.Fpz[1])
    /\ other_ps' = manual_ps(first_len')
    /\ df' = append_ps_to_df(df, other_ps')
    /\ contour' = <<>>
    /\ pc' = "draw late"
    /\ UNCHANGED <<equator, err, early, late>>
    /\ UNCHANGED <<arcVars, coordsVars>>

\* lines 406-407: one pass of the loop over the last five contours
DrawLate ==
    /\ pc = "draw late"
    /\ Pass(contour_order_late(config)[late + 1])
    /\ late' = late + 1
    /\ pc' = IF err' # NoError THEN "raised"
             ELSE IF late' < Len(contour_order_late(config)) THEN "draw late"
             ELSE "landmarks"
    /\ UNCHANGED <<equator, first_len, early>>
    /\ UNCHANGED <<arcVars, coordsVars>>

\* lines 409-416: the landmarks are added to the table
Landmarks ==
    /\ pc = "landmarks"
    /\ df' = with_landmarks(df)
    /\ pc' = "select"
    /\ UNCHANGED <<equator, contour, other_ps, err, first_len, early, late>>
    /\ UNCHANGED <<arcVars, coordsVars>>

\* lines 426-531: the selection is made and returned
Select ==
    /\ pc = "select"
    /\ \E sel \in {Selected(df, call, names)}:
        IF call.as_mne_montage = "True"
        THEN /\ err' = ImportError(config.mne)
             /\ coords' = IF err' # NoError THEN coords ELSE Montage(df, sel)
        ELSE /\ err' = err
             /\ coords' = AsDataFrame(Reduced(sel, call), call)
    /\ pc' = IF err' # NoError THEN "raised" ELSE "returned"
    /\ UNCHANGED <<equator, df, contour, other_ps, first_len, early, late, call, config, names>>
    /\ UNCHANGED arcVars

NextCoords ==
    CheckInputs \/ HandleAliases \/ Seed \/ Draw \/ ManualCoords \/ DrawLate \/ Landmarks
    \/ Select

SpecCoords == InitCoords /\ [][NextCoords]_vars


----------------------------------------------------------------------------
(* Properties of the solver, under SpecArc *)

Solved == pc \in {"returned", "raised"}

PairwiseDistinct(a) == a.p1 # a.p2 /\ a.p1 # a.p3 /\ a.p2 # a.p3
Collinear(a) == Cross(Minus(a.p2, a.p1), Minus(a.p3, a.p1)) = <<0, 0, 0>>
OnCommonSphere(a) == SqNorm(a.p1) = SqNorm(a.p2) /\ SqNorm(a.p2) = SqNorm(a.p3)

\* three distinct, non-collinear points on a sphere about the origin
ValidArc(a) == PairwiseDistinct(a) /\ ~Collinear(a) /\ OnCommonSphere(a)

\* C1: for pairwise distinct, non-collinear p1, p2, p3 on a common sphere about
\* the origin, frac = 0 returns p1 and frac = 1 returns p3, to four decimals.
C1_EndPoints ==
    (Solved /\ ValidArc(args)) =>
        /\ args.frac = <<0, 1>> => point = args.p1
        /\ args.frac = <<1, 1>> => point = args.p3

\* a small circle (three corners of the cube) solved at frac = 1
C1_Witness ==
    /\ pc = "returned"
    /\ ValidArc(args)
    /\ SqNorm(args.p1) = 3 * Unit * Unit
    /\ args.frac = <<1, 1>>
    /\ point = args.p3

\* C2 (as claimed): for every valid arc, frac = 1/2 returns p2.
C2_HalfReturnsP2 ==
    (Solved /\ ValidArc(args) /\ args.frac = <<1, 2>>) => point = args.p2

\* C3 (as claimed): whenever two of the points are equal or the three are
\* collinear, the call raises and returns no point, whatever frac is.
C3_DegenerateRaises ==
    (Solved /\ (~PairwiseDistinct(args) \/ Collinear(args))) =>
        (pc = "raised" /\ point = NoPoint)

\* a positive threshold far above rounding noise and far below the normal of
\* any three distinct grid points (2^-10); the program has none
NormalThreshold == One \div 2^10

\* C4 (as claimed): a triple whose plane normal is shorter than a positive
\* threshold is rejected, so every accepted triple has a normal at least that
\* long.
C4_ThresholdRejects ==
    pc = "returned" => NormalLength(args.p1, args.p2, args.p3) >= NormalThreshold

TestP1 == <<Unit, 0, 0>>
TestP2 == <<0, 0, Unit>>
TestP3 == <<-Unit, 0, 0>>
TestP4 == <<0, 0, -Unit>>
OnTestArc == prev = <<>> /\ args.p1 = TestP1 /\ args.p2 = TestP2 /\ args.p3 = TestP3

\* C5: on the arc (1,0,0), (0,0,1), (-1,0,0) fractions beyond 1 go on around
\* the circle: 1.5 gives (0,0,-1), 2.0 gives p1, 2.5 gives p2, and the result at
\* frac + 2 is the result at frac.
C5_Extrapolation ==
    (Solved /\ OnTestArc) =>
        /\ pc = "returned"
        /\ args.frac = <<3, 2>> => point = TestP4
        /\ args.frac = <<2, 1>> => point = TestP1
        /\ args.frac = <<5, 2>> => point = TestP2
        /\ point = find_point_at_fraction(args.p1, args.p2, args.p3,
                                          <<args.frac[1] + 2 * args.frac[2], args.frac[2]>>)

C5_Witness == pc = "returned" /\ OnTestArc /\ args.frac = <<5, 2>> /\ point = TestP2

\* the first call was made on half a great circle with p2 in its middle, at
\* frac = 3/4, and its result is the middle reference of the current call,
\* which ends at the antipode of p2
ReusedHalfCircle ==
    /\ Len(prev) = 1
    /\ prev[1].args.frac = <<3, 4>>
    /\ OnCommonSphere(prev[1].args)
    /\ prev[1].args.p3 = Neg(prev[1].args.p1)
    /\ Dot(prev[1].args.p1, prev[1].args.p2) = 0
    /\ args.p1 = prev[1].args.p1
    /\ args.p2 = prev[1].point
    /\ args.p3 = Neg(prev[1].args.p2)

\* C6: with pstar the point at 3/4 of the arc (p1, p2, p3), the arc
\* (p1, pstar, p4) to the antipode p4 of p2 gives p2 at 2/6 and p3 at 4/6; for
\* the arc of the test and for every half great circle of the grid.
C6_SubArc ==
    (Solved /\ ReusedHalfCircle) =>
        /\ args.frac = <<2, 6>> => point = prev[1].args.p2
        /\ args.frac = <<4, 6>> => point = prev[1].args.p3

C6_Witness ==
    /\ pc = "returned"
    /\ ReusedHalfCircle
    /\ prev[1].args.p1 = TestP1 /\ prev[1].args.p2 = TestP2 /\ prev[1].args.p3 = TestP3
    /\ prev[1].point = <<-7071, 0, 7071>>
    /\ args.p3 = TestP4
    /\ args.frac = <<2, 6>>
    /\ point = TestP2

----------------------------------------------------------------------------
(* Properties of the contour loop, under SpecContour and Spec *)

\* C7: a pass over a contour whose length is neither 17 nor 21 raises the
\* ValueError that names the length, whatever the table is (a lookup in the
\* table would have raised another error for most of them), and no point was
\* computed
C7_LengthCheckedFirst ==
    pc \in {"pass raised", "pass returned"} /\ Len(contour) \notin {17, 21}
        => /\ pc = "pass raised"
           /\ err = <<"contour must be of len 17 or 21 but is", Len(contour)>>
           /\ other_ps = <<>>

\* the pass of test_add_points_along_contour: forty labels, no data frame
C7_Witness ==
    /\ pc = "pass raised"
    /\ contour = Numbered(40)
    /\ df.columns = {}
    /\ err = <<"contour must be of len 17 or 21 but is", 40>>

\* the labels of the rows of a table
Labels(table) == {table.rows[k].label : k \in 1..Len(table.rows)}

\* C8: no step changes a row: every row of the table is a row of the table
\* after the step, no other row of that table has its label, and so the labels
\* only grow
C8_FirstWriterWins ==
    [][\A k \in 1..Len(df.rows):
          /\ \E j \in 1..Len(df'.rows): df'.rows[j] = df.rows[k]
          /\ \A j \in 1..Len(df'.rows):
                df'.rows[j].label = df.rows[k].label => df'.rows[j].xyz = df.rows[k].xyz]_vars

\* a pass was made that proposed other coordinates for a label of the table,
\* Cz among them, and the table has the coordinates it had
C8_Witness ==
    /\ pc \in {"contours", "late", "done"}
    /\ contour # <<>>
    /\ err = NoError
    /\ \E k \in 1..Len(other_ps):
          /\ other_ps[k].label = "Cz"
          /\ other_ps[k].xyz # <<0, 0, Unit>>
    /\ \E k \in 1..Len(other_ps), j \in 1..Len(df.rows):
          /\ other_ps[k].label = df.rows[j].label
          /\ other_ps[k].label # "Cz"
          /\ other_ps[k].xyz # df.rows[j].xyz

\* C9: no two rows of the table have the same label
C9_UniqueLabels ==
    \A i, j \in 1..Len(df.rows): df.rows[i].label = df.rows[j].label => i = j

\* a contour was expanded that lists a label twice and lists labels the table had
C9_Witness ==
    /\ pc \in {"contours", "late", "done"}
    /\ err = NoError
    /\ \E i, j \in 1..Len(contour): i # j /\ contour[i] = contour[j]
    /\ Len(df.rows) > 5
    /\ Len(other_ps) < Len(contour)

\* C10: the table has one row for Cz, and it is (0, 0, 1)
C10_CzOnTop ==
    pc \in {"contours", "manual", "late", "done", "failed"}
        => get_xyz(df, "Cz") = [err |-> NoError, xyz |-> <<0, 0, Unit>>]

\* the table of the Fpz convention is complete, the manual step and the five
\* late contours done
C10_Witness ==
    /\ pc = "done"
    /\ equator = "Fpz-T8-Oz-T7"
    /\ late = LateCount
    /\ "Nz" \in Labels(df)
    /\ get_xyz(df, "Cz").xyz = <<0, 0, Unit>>

\* C11: before the first contour is drawn the table holds exactly five rows:
\* the four labels of the equator name on front (0,1,0), right (1,0,0), back
\* (0,-1,0) and left (-1,0,0), in this order, and Cz on top (0,0,1)
C11_SeedTable ==
    (pc = "contours" /\ early = 0) =>
        /\ df.columns = {"label", "x", "y", "z"}
        /\ Len(df.rows) = 5
        /\ equator = "Nz-T10-Iz-T9" =>
               df.rows = <<[label |-> "Nz", xyz |-> <<0, 10000, 0>>],
                           [label |-> "T10", xyz |-> <<10000, 0, 0>>],
                           [label |-> "Iz", xyz |-> <<0, -10000, 0>>],
                           [label |-> "T9", xyz |-> <<-10000, 0, 0>>],
                           [label |-> "Cz", xyz |-> <<0, 0, 10000>>]>>
        /\ equator = "Fpz-T8-Oz-T7" =>
               df.rows = <<[label |-> "Fpz", xyz |-> <<0, 10000, 0>>],
                           [label |-> "T8", xyz |-> <<10000, 0, 0>>],
                           [label |-> "Oz", xyz |-> <<0, -10000, 0>>],
                           [label |-> "T7", xyz |-> <<-10000, 0, 0>>],
                           [label |-> "Cz", xyz |-> <<0, 0, 10000>>]>>
        /\ equator \in {"Nz-T10-Iz-T9", "Fpz-T8-Oz-T7"}

C11_Witness ==
    /\ pc = "contours"
    /\ early = 0
    /\ equator = "Fpz-T8-Oz-T7"
    /\ Len(df.rows) = 5

\* the labels a step proposes points for: the labels of the contour of a pass,
\* the eight labels of the manual step
ProposedLabels == IF pc = "manual" THEN Range(p_to_find) ELSE Range(contour')

\* C12: expanding a contour, or making the manual step, on a table that has
\* all of its labels already leaves the table as it is, so a second run over
\* the catalog changes nothing (that two runs from the same seeds agree is the
\* determinism of every step: no step has another input than the table and the
\* contour)
C12_ReExpansion ==
    [][(ProposedLabels \subseteq Labels(df)) => df' = df]_vars

\* the midline was drawn twice in a row, without an error
C12_Witness ==
    /\ pc = "contours"
    /\ early = 2
    /\ first_len = 21
    /\ contour = Midline21
    /\ Len(df.rows) = 23
    /\ err = NoError
    /\ Len(other_ps) = 21

\* the three reference labels of a contour of 17 or 21 labels, in the order
\* they are looked up
References(c) == <<c[1], c[midpoint_idx(Len(c)) + 1], c[Len(c)]>>

\* the lookup of the label in the table does not give exactly one row
Unresolved(table, label) ==
    \/ \E c \in {"label", "x", "y", "z"}: c \notin table.columns
    \/ Cardinality({k \in 1..Len(table.rows): table.rows[k].label = label}) # 1

\* C13: a pass over a contour of 17 or 21 labels one of whose reference labels
\* is not in exactly one row of the table (or whose table lacks one of the
\* columns label, x, y, z) raises the error of the lookup (a missing column,
\* or the number of rows found for the first such label), computes no point
\* and leaves the table as it was
C13_LookupRaises ==
    [][(/\ pc = "pass"
        /\ Len(contour) \in {17, 21}
        /\ \E k \in 1..3: Unresolved(df, References(contour)[k]))
       => /\ pc' = "pass raised"
          /\ other_ps' = <<>>
          /\ df' = df
          /\ \/ /\ \E c \in {"label", "x", "y", "z"}: c \notin df.columns
                /\ err'[1] = "df must contain a column"
             \/ /\ df.columns = {"label", "x", "y", "z"}
                /\ \E k \in 1..3:
                      /\ Unresolved(df, References(contour)[k])
                      /\ \A j \in 1..(k - 1): ~Unresolved(df, References(contour)[j])
                      /\ err' = <<"Expected one row of data but got",
                                  Cardinality({i \in 1..Len(df.rows):
                                      df.rows[i].label = References(contour)[k]})>>]_vars

\* a pass found two rows for its midpoint Cz and raised
C13_Witness ==
    /\ pc = "pass raised"
    /\ Len(contour) = 21
    /\ err = <<"Expected one row of data but got", 2>>
    /\ Cardinality({k \in 1..Len(df.rows): df.rows[k].label = "Cz"}) = 2
    /\ other_ps = <<>>

----------------------------------------------------------------------------
(* Properties of get_elec_coords, under SpecCoords *)

\* C14: a step that ends with an error (a contour of a wrong length, a
\* reference point that is not in the table, reference points that coincide)
\* ends the call: the call has raised, no step follows, so no later contour is
\* drawn, and nothing was or will be returned
C14_Abort ==
    /\ [](pc = "raised" => err # NoError /\ coords = NoCoords)
    /\ [](pc = "returned" => err = NoError)
    /\ [][(err' # NoError => pc' = "raised") /\ pc # "raised"]_vars

\* the second of three contours had 16 labels: the call raised, the third
\* contour was not drawn
C14_Witness ==
    /\ pc = "raised"
    /\ early = 1 + 1
    /\ Len(config.Nz) = 3
    /\ equator = "Nz-T10-Iz-T9"
    /\ err = <<"contour must be of len 17 or 21 but is", 16>>
    /\ coords = NoCoords

\* an argument of the call is not valid
InvalidArgument(c) ==
    \/ c.equator \notin {"Nz-T10-Iz-T9", "Fpz-T8-Oz-T7"}
    \/ c.system \notin {"1020", "1010", "1005"}
    \/ c.elec_names.type \notin {"list", "NoneType"}
    \/ \E k \in 1..Len(c.elec_names.items):
          c.elec_names.items[k] \notin get_available_elec_names
    \/ c.dim \notin {"2d", "3d"}
    \/ c.as_mne_montage \notin {"True", "False"}
    \/ c.drop_landmarks \notin {"True", "False"}

\* the messages of the ValueErrors of the input checks
InputMessages ==
    {"equator must be one of", "system must be one of",
     "elec_names must be a list of str or None.",
     "For some elec_names there are no available positions",
     "dim must be one of", "must be a boolean value, but found"}

\* C16: a call with an argument that is not valid (equator, system, the type
\* of elec_names, a name without a position, dim, as_mne_montage or
\* drop_landmarks not a bool) raises one of the ValueErrors of the input
\* checks at its first step: no table was set up, no contour drawn and nothing
\* is returned
C16_InvalidArguments ==
    InvalidArgument(call) =>
        \/ pc = "check"
        \/ /\ pc = "raised"
           /\ err # NoError
           /\ err[1] \in InputMessages
           /\ df.rows = <<>>
           /\ early = 0
           /\ names = NoNames
           /\ coords = NoCoords

\* a call with dim = "4d" and nothing else wrong raised the ValueError of dim
C16_Witness ==
    /\ pc = "raised"
    /\ call.dim = "4d"
    /\ call.equator = "Fpz-T8-Oz-T7"
    /\ call.system = "1010"
    /\ err[1] = "dim must be one of"
    /\ df.rows = <<>>

\* elec_names has an alias and the electrode name it stands for
NamedTwice(c) ==
    \E k, j \in 1..Len(c.elec_names.items):
        <<c.elec_names.items[k], c.elec_names.items[j]>> \in {<<"M1", "TP9">>, <<"M2", "TP10">>}

\* C17: a call whose arguments pass the input checks and whose elec_names has
\* both M1 and TP9, or both M2 and TP10, in either order, raises the ValueError
\* of the alias loop before a table is set up, and returns nothing (A1 and A2
\* are no names of LPA and RPA but of positions next to them, and may be asked
\* for together with them)
C17_SamePositionTwice ==
    (~InvalidArgument(call) /\ NamedTwice(call)) =>
        \/ pc \in {"check", "aliases"}
        \/ /\ pc = "raised"
           /\ err[1] = "You specified the same electrode position using two aliases"
           /\ df.rows = <<>>
           /\ coords = NoCoords

\* TP9 was named before its alias M1 and the call raised
C17_Witness ==
    /\ pc = "raised"
    /\ call.elec_names.items = <<"TP9", "M1">>
    /\ err = <<"You specified the same electrode position using two aliases", "M1", "TP9">>
    /\ coords = NoCoords

\* the labels of the rows, in the order of the rows
LabelsInOrder(rows) == [k \in 1..Len(rows) |-> rows[k].label]

\* the place of a label in the order of strings
Rank(label) == CHOOSE k \in 1..Len(CodePointOrder): CodePointOrder[k] = label

\* the call returned a data frame for a list of names without a name twice and
\* without a position twice, and the landmarks were not dropped
ReturnedForNames ==
    /\ pc = "returned"
    /\ call.as_mne_montage = "False"
    /\ call.drop_landmarks = "False"
    /\ call.elec_names.type = "list"
    /\ Len(call.elec_names.items) > 0
    /\ \A k, j \in 1..Len(call.elec_names.items):
          k # j => call.elec_names.items[k] # call.elec_names.items[j]

\* C18: such a call with sort = False returns rows whose labels are the list
\* elec_names as it was passed, and with sort = True rows with these labels in
\* ascending order of the strings
C18_Order ==
    ReturnedForNames =>
        /\ ~call.sort => LabelsInOrder(coords.rows) = call.elec_names.items
        /\ call.sort =>
              /\ Range(LabelsInOrder(coords.rows)) = Range(call.elec_names.items)
              /\ Len(coords.rows) = Len(call.elec_names.items)
              /\ \A k \in 1..(Len(coords.rows) - 1):
                    Rank(coords.rows[k].label) < Rank(coords.rows[k + 1].label)

\* Fp1 and AFz were asked for in this order, which is neither the order of
\* the table nor the order of the strings, and came back in this order
C18_Witness ==
    /\ ReturnedForNames
    /\ ~call.sort
    /\ call.elec_names.items = <<"Fp1", "AFz">>
    /\ LabelsInOrder(coords.rows) = <<"Fp1", "AFz">>

\* the rows of the label
RowsOf(rows, label) == SelectSeq(rows, LAMBDA r: r.label = label)

\* C19 (as claimed): a call in 3D for a list of available names without
\* repetition, aliases among them, sorted or not, returns one row for each
\* name, under this name and with coordinates: those of TP9 and TP10 for M1
\* and M2, those of LPA and RPA plus the offset of the alias mapping for A1
\* and A2, and those of the table for any other name
C19_AliasRows ==
    (ReturnedForNames /\ call.dim = "3d") =>
        /\ Len(coords.rows) = Len(call.elec_names.items)
        /\ \A k \in 1..Len(call.elec_names.items):
              /\ Len(RowsOf(coords.rows, call.elec_names.items[k])) = 1
              /\ RowsOf(coords.rows, call.elec_names.items[k])[1].xyz # NaN
              /\ RowsOf(coords.rows, call.elec_names.items[k])[1].xyz =
                    IF call.elec_names.items[k] = "M1" THEN RowsOf(df.rows, "TP9")[1].xyz
                    ELSE IF call.elec_names.items[k] = "M2" THEN RowsOf(df.rows, "TP10")[1].xyz
                    ELSE IF call.elec_names.items[k] = "A1"
                    THEN Offset(RowsOf(df.rows, "LPA")[1].xyz, <<-1000, -100, -100>>)
                    ELSE IF call.elec_names.items[k] = "A2"
                    THEN Offset(RowsOf(df.rows, "RPA")[1].xyz, <<1000, -100, -100>>)
                    ELSE RowsOf(df.rows, call.elec_names.items[k])[1].xyz

\* the table has landmark rows
HasLandmarks == \E k \in 1..Len(df.rows): df.rows[k].label \in {"NAS", "LPA", "RPA"}

\* every contour of the catalog was drawn, and the manual step made if the
\* convention has one
AllDrawn ==
    /\ early = Len(contour_order(config, equator))
    /\ equator = "Fpz-T8-Oz-T7" =>
          /\ late = Len(contour_order_late(config))
          /\ first_len > 0
          /\ \A k \in 1..Len(p_to_find): Len(RowsOf(df.rows, p_to_find[k])) = 1

\* C20: once the landmarks are added the table has one row for each of NAS,
\* LPA and RPA, with the coordinates of Nz, T9 and T10, under either
\* convention; and the table has landmark rows only when every contour was
\* drawn and, for Fpz-T8-Oz-T7, the manual step made
C20_Landmarks ==
    /\ pc \in {"select", "returned"} =>
          \A p \in {<<"NAS", "Nz">>, <<"LPA", "T9">>, <<"RPA", "T10">>}:
              /\ Len(RowsOf(df.rows, p[1])) = 1
              /\ Len(RowsOf(df.rows, p[2])) = 1
              /\ RowsOf(df.rows, p[1])[1].xyz = RowsOf(df.rows, p[2])[1].xyz
    /\ HasLandmarks => AllDrawn /\ pc \in {"select", "returned", "raised"}

\* under Fpz-T8-Oz-T7 the landmarks were added after the last five contours:
\* LPA is where the manual step put T9, below the equator on the left
C20_Witness ==
    /\ pc = "returned"
    /\ equator = "Fpz-T8-Oz-T7"
    /\ late = 5
    /\ Len(RowsOf(df.rows, "LPA")) = 1
    /\ RowsOf(df.rows, "LPA")[1].xyz = RowsOf(df.rows, "T9")[1].xyz
    /\ RowsOf(df.rows, "LPA")[1].xyz[1] < 0
    /\ RowsOf(df.rows, "LPA")[1].xyz[3] < 0

\* the labels of the table returned that name a landmark
LandmarkLabels == {l \in Range(LabelsInOrder(coords.rows)) : l \in Range(LANDMARKS)}

\* C21: a table returned with drop_landmarks=True has no row labelled NAS, LPA
\* or RPA, whatever the other arguments and even if elec_names names a
\* landmark; a table returned with drop_landmarks=False and elec_names=None
\* has one row for each of the three
C21_DropLandmarks ==
    pc = "returned" /\ call.as_mne_montage = "False" =>
        /\ call.drop_landmarks = "True" => LandmarkLabels = {}
        /\ call.drop_landmarks = "False" /\ call.elec_names = None =>
              \A l \in Range(LANDMARKS): Len(RowsOf(coords.rows, l)) = 1

\* NAS was asked for by name and dropped, Nz and Cz are what is left
C21_Witness ==
    /\ pc = "returned"
    /\ call.drop_landmarks = "True"
    /\ call.elec_names = List(<<"NAS", "Nz", "Cz">>)
    /\ ~call.sort
    /\ LabelsInOrder(coords.rows) = <<"Nz", "Cz">>

\* C22: drop_landmarks defaults to True: a call that leaves drop_landmarks at
\* the default of the signature returns a table without rows labelled NAS,
\* LPA or RPA
C22_DefaultDropsLandmarks ==
    pc = "returned" /\ call.as_mne_montage = "False"
    /\ call.drop_landmarks = DefaultCall.drop_landmarks => LandmarkLabels = {}

\* the call with another system
WithSystem(c, sy) == [c EXCEPT !.system = sy]

\* the table get_elec_coords returns for call c from the table df it drew
ReturnedFor(c) ==
    Only({AsDataFrame(Reduced(Selected(df, c, n), c), c) :
          n \in {handle_aliases(c.elec_names.items)}})

\* C23: when elec_names is a list that is not empty, the system is ignored:
\* with any other valid system the call passes the input checks as well and
\* the table returned is the same
C23_SystemIgnored ==
    /\ pc = "returned" /\ call.as_mne_montage = "False" /\ call.elec_names.items # <<>>
       => \A sy \in {"1020", "1010", "1005"}:
             /\ InputError(WithSystem(call, sy)) = NoError
             /\ coords = ReturnedFor(WithSystem(call, sy))
    /\ pc = "returned" /\ call.as_mne_montage = "False"
       => coords = ReturnedFor(call)

\* AFz is not a position of the 10-20 system and is returned under it
C23_Witness ==
    /\ pc = "returned"
    /\ call.system = "1020"
    /\ call.elec_names = List(<<"Fp1", "AFz">>)
    /\ "AFz" \notin systems[SystemKey(call.system)]
    /\ LabelsInOrder(coords.rows) = <<"Fp1", "AFz">>
    /\ \A k \in 1..Len(coords.rows): coords.rows[k].xyz # NaN

\* the exception a message of the import of mne is raised with (lines 469-471
\* and 481-482)
RaisedWith(e) ==
    IF e = NoError THEN "nothing"
    ELSE IF e[1] = "if as_mne_montage is True, you must have mne installed."
    THEN "ImportError"
    ELSE IF e[1] = "You need to update your mne installation." THEN "RuntimeError"
    ELSE "ValueError"

\* a call for a montage whose arguments pass the input checks
MontageAskedFor == call.as_mne_montage = "True" /\ InputError(call) = NoError

\* C24: a call with as_mne_montage=True and valid arguments raises
\* ImportError if mne cannot be imported and RuntimeError, naming the version
\* found, if mne is older than required, and returns no montage in either
\* case; a montage that is returned has no landmark among its channels
C24_Montage ==
    /\ MontageAskedFor /\ config.mne = "absent" =>
          /\ pc # "returned" /\ coords = NoCoords
          /\ pc = "raised" => RaisedWith(err) = "ImportError"
    /\ MontageAskedFor /\ config.mne = "0.19.0" =>
          /\ pc # "returned" /\ coords = NoCoords
          /\ pc = "raised" => RaisedWith(err) = "RuntimeError" /\ err[2] = config.mne
    /\ MontageAskedFor /\ pc = "returned" =>
          /\ coords.columns = {"ch_pos", "nasion", "lpa", "rpa"}
          /\ LandmarkLabels = {}
          /\ config.mne = "recent"

\* the montage was asked for with the mne of the test, 0.19.0, and the call
\* raised RuntimeError with that version in its message
C24_Witness ==
    /\ pc = "raised"
    /\ MontageAskedFor
    /\ config.mne = "0.19.0"
    /\ RaisedWith(err) = "RuntimeError"
    /\ err[2] = "0.19.0"
    /\ coords = NoCoords

\* x2 is x / (1 + z), up to the rounding of the division: x2 * (1 + z) and
\* x differ in the last three bits at most
IsQuotient(x2, x, z) ==
    \E d \in {Mul(x2, One + FromDec4(z)) - FromDec4(x)}: -8 <= d /\ d <= 8

MidpointLabel == contour[midpoint_idx(Len(contour)) + 1]

\* the contour was expanded and names its midpoint label once
ExpandedOnce ==
    /\ contour # <<>>
    /\ err = NoError
    /\ pc \in {"contours", "manual", "late", "done"}
    /\ Len(RowsOf([k \in 1..Len(contour) |-> [label |-> contour[k]]], MidpointLabel)) = 1

\* C26: the midpoint reference of a contour is contour[10] if it has 21 labels
\* and contour[8] if it has 17, the index (len - 1) / 2, so that the label of
\* the midpoint is the one whose point is proposed at the fraction 1/2 of the
\* arc through the first label, this label and the last label
C26_Midpoint ==
    \A n \in {Len(contour)}:
        /\ n = 21 => midpoint_idx(n) = 10
        /\ n = 17 => midpoint_idx(n) = 8
        /\ n \in {17, 21} => 2 * midpoint_idx(n) = n - 1
        /\ ExpandedOnce =>
              /\ n \in {17, 21}
              /\ ValueOf(other_ps, MidpointLabel)
                 = find_point_at_fraction(get_xyz(df, contour[1]).xyz,
                                          get_xyz(df, MidpointLabel).xyz,
                                          get_xyz(df, contour[n]).xyz, <<1, 2>>)

\* the contour of 17 labels from Fpz to Oz has Cz at its midpoint
C26_Witness ==
    /\ ExpandedOnce
    /\ Len(contour) = 17
    /\ contour[1] = "Fpz"
    /\ contour[9] = "Cz"
    /\ MidpointLabel = "Cz"
    /\ ValueOf(other_ps, "Cz") # NoPoint

\* the three reference points of the contour just expanded, as the table has
\* them
ReferenceArc ==
    <<get_xyz(df, contour[1]).xyz, get_xyz(df, MidpointLabel).xyz,
      get_xyz(df, contour[Len(contour)]).xyz>>

\* the contour was expanded without a ValueError
JustExpanded ==
    /\ contour # <<>>
    /\ err = NoError
    /\ pc \in {"contours", "manual", "late", "done"}

\* C27: expanding a contour of n labels proposes n points, one for each
\* position i = 0..n-1, all on the arc through the same three reference
\* points, the one at position i at the fraction i / (n - 1) and under the
\* label contour[i]: the fractions go from 0, the first reference point, to 1,
\* the last, in equal steps of 1 / (n - 1)
C27_Fractions ==
    JustExpanded =>
        \A n \in {Len(contour)}: \A arc \in {ReferenceArc}:
            /\ Range(LabelsInOrder(other_ps)) = Range(contour)
            /\ Len(other_ps) <= n
            /\ \A i \in 1..n:
                  (\A j \in (i + 1)..n: contour[j] # contour[i]) =>
                      ValueOf(other_ps, contour[i])
                      = find_point_at_fraction(arc[1], arc[2], arc[3], <<i - 1, n - 1>>)
            /\ Len(other_ps) = n =>
                  /\ LabelsInOrder(other_ps) = contour
                  /\ other_ps[1].xyz = arc[1]
                  /\ other_ps[n].xyz = arc[3]

\* the contour of 21 labels from Nz to Iz: 21 points, Nz at the fraction 0 and
\* Iz at the fraction 1
C27_Witness ==
    /\ JustExpanded
    /\ Len(contour) = 21
    /\ Len(other_ps) = 21
    /\ contour[1] = "Nz"
    /\ contour[21] = "Iz"
    /\ other_ps[1] = [label |-> "Nz", xyz |-> get_xyz(df, "Nz").xyz]
    /\ other_ps[21] = [label |-> "Iz", xyz |-> get_xyz(df, "Iz").xyz]
    /\ other_ps[6].xyz = find_point_at_fraction(ReferenceArc[1], ReferenceArc[2],
                                                ReferenceArc[3], <<1, 4>>)

\* the catalog of the convention of the call
Catalog == IF equator = "Nz-T10-Iz-T9" THEN config.Nz ELSE config.Fpz

\* the number of contours of the catalog before its last five
BeforeLast5 == IF Len(Catalog) > 5 THEN Len(Catalog) - 5 ELSE 0

\* the eight points of the manual step are in the table
ManualPointsKnown == \A k \in 1..Len(p_to_find): Len(RowsOf(df.rows, p_to_find[k])) = 1

\* where the run stands: under Nz-T10-Iz-T9 there is no manual step and no
\* second loop, and the landmarks follow the whole catalog; under
\* Fpz-T8-Oz-T7 the manual step follows all contours but the last five, and
\* the last five follow the manual step
StepsInOrder ==
    /\ equator = "Nz-T10-Iz-T9" =>
          /\ pc \notin {"manual", "draw late"}
          /\ late = 0 /\ first_len = 0
          /\ pc \in {"landmarks", "select", "returned"} => early = Len(Catalog)
    /\ equator = "Fpz-T8-Oz-T7" =>
          /\ early <= BeforeLast5
          /\ pc = "manual" => early = BeforeLast5 /\ late = 0
          /\ pc = "draw late" \/ late > 0 =>
                /\ early = BeforeLast5
                /\ first_len = Len(Catalog[1])
                /\ ManualPointsKnown
          /\ pc = "draw late" /\ late = 0 =>
                LabelsInOrder(other_ps) = p_to_find /\ Len(other_ps) = 8
          /\ pc \in {"landmarks", "select", "returned"} =>
                early = BeforeLast5 /\ early + late = Len(Catalog)

\* a pass of the first loop expands the next contour of the catalog, a pass
\* of the second loop the next of its last five
NextContourDrawn ==
    /\ early' # early =>
          /\ pc = "draw"
          /\ early' = early + 1
          /\ contour' = Catalog[early']
    /\ late' # late =>
          /\ pc = "draw late"
          /\ late' = late + 1
          /\ contour' = Catalog[BeforeLast5 + late']

\* C28: under Fpz-T8-Oz-T7 all contours of the catalog but the last five are
\* drawn in order, then the eight points of the manual step are computed, then
\* the last five contours are drawn in order, so that the eight points are in
\* the table before any of the last five looks up its reference points; under
\* Nz-T10-Iz-T9 the whole catalog is drawn in order, without a manual step
C28_Steps == []StepsInOrder /\ [][NextContourDrawn]_vars

\* the manual step is made and none of the last five contours drawn yet
C28_Witness ==
    /\ equator = "Fpz-T8-Oz-T7"
    /\ pc = "draw late"
    /\ late = 0
    /\ Len(config.Fpz) = 7
    /\ early = 2
    /\ ManualPointsKnown
    /\ Len(other_ps) = 8

\* the manual step is just made
ManualStepMade == pc = "draw late" /\ late = 0

\* the point of the manual step that has the label
ManualXyz(label) == RowOf(other_ps, label).xyz

\* C29: the manual step computes OIz, Iz, NFpz, Nz, T10h, T10, T9h and T9, in
\* this order and no other point, at the fraction 1 + k / len(first contour of
\* the catalog) with k = 1 for OIz, NFpz, T10h and T9h and k = 2 for Iz, Nz,
\* T10 and T9, on the arcs (front, top, back) for OIz and Iz, (back, top,
\* front) for NFpz and Nz, (left, top, right) for T10h and T10 and (right, top,
\* left) for T9h and T9; the table of compute.py and the eight assignments of
\* calc_positions.py give the same points, for a first contour of 17 labels
\* as for one of 21
C29_ManualPoints ==
    /\ pc = "manual" => manual_ps(21) = ManualPs(21)
    /\ ManualStepMade =>
          \A n \in {Len(config.Fpz[1])}:
              /\ first_len = n
              /\ LabelsInOrder(other_ps)
                 = <<"OIz", "Iz", "NFpz", "Nz", "T10h", "T10", "T9h", "T9">>
              /\ other_ps = ManualPs(n)
              /\ \A l \in {"OIz", "Iz"}:
                    ManualXyz(l)
                    = find_point_at_fraction(front, Cz, back,
                                             <<n + (IF l = "OIz" THEN 1 ELSE 2), n>>)
              /\ \A l \in {"NFpz", "Nz"}:
                    ManualXyz(l)
                    = find_point_at_fraction(back, Cz, front,
                                             <<n + (IF l = "NFpz" THEN 1 ELSE 2), n>>)
              /\ \A l \in {"T10h", "T10"}:
                    ManualXyz(l)
                    = find_point_at_fraction(left, Cz, right,
                                             <<n + (IF l = "T10h" THEN 1 ELSE 2), n>>)
              /\ \A l \in {"T9h", "T9"}:
                    ManualXyz(l)
                    = find_point_at_fraction(right, Cz, left,
                                             <<n + (IF l = "T9h" THEN 1 ELSE 2), n>>)

\* the eight points lie below the equator, past the end of their arcs: Iz and
\* Nz behind and in front, T10 on the right and T9 on the left, each lower
\* than the point half a step before it
C29_Witness ==
    /\ ManualStepMade
    /\ first_len = 17
    /\ Len(other_ps) = 8
    /\ ManualXyz("Iz")[2] < 0 /\ ManualXyz("Iz")[3] < ManualXyz("OIz")[3]
    /\ ManualXyz("Nz")[2] > 0 /\ ManualXyz("Nz")[3] < ManualXyz("NFpz")[3]
    /\ ManualXyz("T10")[1] > 0 /\ ManualXyz("T10")[3] < ManualXyz("T10h")[3]
    /\ ManualXyz("T9")[1] < 0 /\ ManualXyz("T9")[3] < ManualXyz("T9h")[3]
    /\ \A k \in 1..8: other_ps[k].xyz[3] < 0

\* elec_names as the caller passed it and as the alias loop leaves it
Passed == call.elec_names.items
Left == names.elec_names

\* the entries the alias loop overwrites, and what it writes
SimpleAliases == {<<"M1", "TP9">>, <<"M2", "TP10">>}

\* C30: the list passed as elec_names is written to only where it names a
\* simple alias: M1 is overwritten with TP9 and M2 with TP10, at their
\* positions; every other entry, a 10-05 name, a landmark or A1 or A2, stays,
\* and so do the length and the order of the list; the table returned has the
\* row of an overwritten entry under the name that was passed
C30_InPlace ==
    pc # "check" /\ InputError(call) = NoError =>
        /\ Len(Left) = Len(Passed)
        /\ \A k \in 1..Len(Passed):
              Left[k] # Passed[k] => <<Passed[k], Left[k]>> \in SimpleAliases
        /\ pc \notin {"aliases", "raised"} =>
              \A k \in 1..Len(Passed):
                  Passed[k] \in {"M1", "M2"} => <<Passed[k], Left[k]>> \in SimpleAliases
        /\ pc = "returned" /\ call.as_mne_montage = "False" =>
              \A k \in 1..Len(Passed):
                  Left[k] # Passed[k] =>
                      /\ Len(RowsOf(coords.rows, Passed[k])) = 1
                      /\ Len(RowsOf(coords.rows, Left[k])) = 0
                      /\ call.dim = "3d" =>
                            RowOf(coords.rows, Passed[k]).xyz = RowOf(df.rows, Left[k]).xyz

\* M2 was overwritten with TP10, A2, Cz and A1 were left, and the table has
\* the row of TP10 under M2
C30_Witness ==
    /\ pc = "returned"
    /\ ~call.sort
    /\ call.dim = "3d"
    /\ Passed = <<"M2", "A2", "Cz", "A1">>
    /\ Left = <<"TP10", "A2", "Cz", "A1">>
    /\ LabelsInOrder(coords.rows) = Passed
    /\ coords.rows[1].xyz = RowOf(df.rows, "TP10").xyz
    /\ coords.rows[1].xyz # NaN

====
